---------------------------- MODULE Spec2Model ----------------------------
(***************************************************************************)
(* A model of rename-image-files: the filename transforms of utils.py, the *)
(* shared RateLimiter of rate_limiter.py, the concurrent rename pipeline   *)
(* of rename_image_files.py (process_batch, process_with_progress and      *)
(* process_image on the asyncio event loop and its worker threads) and the *)
(* enumeration of the input paths of list_files.py.                        *)
(*                                                                         *)
(* Text is a sequence of characters; a character is a one-token string.    *)
(* Time is counted in ticks of 0.1 s, the smallest duration in the code.   *)
(***************************************************************************)
EXTENDS Integers, Sequences, FiniteSets, TLC

None == "None"

(***************************************************************************)
(* Characters.  The tokens stand for these code points:                    *)
(*   "eacute" U+00E9, "Eacute" U+00C9, "acute" U+0301 (combining),         *)
(*   "emdash" U+2014; every other token is the ASCII character itself.     *)
(***************************************************************************)
LowerLetters ==
    <<"a", "b", "c", "d", "e", "f", "g", "h", "i", "j", "k", "l", "m",
      "n", "o", "p", "q", "r", "s", "t", "u", "v", "w", "x", "y", "z">>
UpperLetters ==
    <<"A", "B", "C", "D", "E", "F", "G", "H", "I", "J", "K", "L", "M",
      "N", "O", "P", "Q", "R", "S", "T", "U", "V", "W", "X", "Y", "Z">>
Digits == {"0", "1", "2", "3", "4", "5", "6", "7", "8", "9"}
\* the characters of the universe that str.isspace / str.isupper accept, and the hyphen
SpaceChars == {" "}
UpperChars == {UpperLetters[i] : i \in 1..Len(UpperLetters)} \cup {"Eacute"}
HyphenChars == {"-"}

Min(a, b) == IF a <= b THEN a ELSE b
IndexOf(seq, c) == CHOOSE i \in 1..Len(seq) : seq[i] = c
InSeq(seq, c) == \E i \in 1..Len(seq) : seq[i] = c

\* str.isspace, per character
IsSpace(c) == c \in SpaceChars
\* str.isupper / str.islower, per character
IsUpper(c) == c \in UpperChars
IsLower(c) == InSeq(LowerLetters, c) \/ c = "eacute"
IsCased(c) == IsUpper(c) \/ IsLower(c)
\* the regular expression class \w (Unicode): alphanumerics and underscore
IsWord(c) == IsCased(c) \/ c \in Digits \/ c = "_"
\* unicodedata.combining(c) # 0
IsCombining(c) == c = "acute"
\* c encodes to ASCII
IsAscii(c) == c \notin {"eacute", "Eacute", "acute", "emdash"}

\* str.lower and str.upper, per character
LowerChar(c) ==
    IF InSeq(UpperLetters, c) THEN LowerLetters[IndexOf(UpperLetters, c)]
    ELSE IF c = "Eacute" THEN "eacute" ELSE c
UpperChar(c) ==
    IF InSeq(LowerLetters, c) THEN UpperLetters[IndexOf(LowerLetters, c)]
    ELSE IF c = "eacute" THEN "Eacute" ELSE c

(***************************************************************************)
(* Sequence helpers for str methods and re.sub.                            *)
(***************************************************************************)
\* any(c in chars for c in s)
AnyChar(s, chars) == \E i \in 1..Len(s) : s[i] \in chars

\* s without its leading / trailing characters that are in chars
LStrip(s, chars) ==
    LET k == IF \A i \in 1..Len(s) : s[i] \in chars THEN Len(s) + 1
             ELSE CHOOSE i \in 1..Len(s) : s[i] \notin chars /\ \A j \in 1..(i - 1) : s[j] \in chars
    IN SubSeq(s, k, Len(s))
RStrip(s, chars) ==
    LET k == IF \A i \in 1..Len(s) : s[i] \in chars THEN 0
             ELSE CHOOSE i \in 1..Len(s) : s[i] \notin chars /\ \A j \in (i + 1)..Len(s) : s[j] \in chars
    IN SubSeq(s, 1, k)
Strip(s, chars) == RStrip(LStrip(s, chars), chars)

\* str.strip(): whitespace off both ends
StripSpace(s) == Strip(s, SpaceChars)
SameText(s) == s
\* str.strip("-")
StripHyphen(s) == Strip(s, HyphenChars)

\* re.sub([chars]+, rep, s): every maximal run of characters in chars becomes rep.
\* The text is split in two halves (a run that crosses the middle is replaced once, in
\* the first half), so that long texts do not nest deeply
RECURSIVE SubRuns(_, _, _)
SubRunsAt(s, chars, rep, k) ==
    SubRuns(SubSeq(s, 1, k), chars, rep)
        \o SubRuns(IF s[k] \in chars THEN LStrip(SubSeq(s, k + 1, Len(s)), chars)
                   ELSE SubSeq(s, k + 1, Len(s)), chars, rep)
SubRuns(s, chars, rep) ==
    IF s = <<>> THEN <<>>
    ELSE IF Len(s) = 1 THEN (IF s[1] \in chars THEN rep ELSE s)
    ELSE SubRunsAt(s, chars, rep, Len(s) \div 2)

\* str.lower(), str.upper()
Lower(s) == [i \in 1..Len(s) |-> LowerChar(s[i])]
Upper(s) == [i \in 1..Len(s) |-> UpperChar(s[i])]
\* str.title(): a cased character after an uncased one is upper-cased, the others lower-cased
Title(s) ==
    [i \in 1..Len(s) |-> IF i > 1 /\ IsCased(s[i - 1]) THEN LowerChar(s[i]) ELSE UpperChar(s[i])]
\* str.capitalize(): first character upper-cased, the rest lower-cased
Capitalize(s) ==
    [i \in 1..Len(s) |-> IF i = 1 THEN UpperChar(s[i]) ELSE LowerChar(s[i])]

\* unicodedata.normalize("NFC", s): a base letter and a following combining acute compose.
\* The text is split where no letter is parted from its accent
Composes(s, k) == s[k] \in {"e", "E"} /\ s[k + 1] = "acute"
RECURSIVE NFC(_)
NFCAt(s, k) == NFC(SubSeq(s, 1, k)) \o NFC(SubSeq(s, k + 1, Len(s)))
NFC(s) ==
    IF Len(s) < 2 THEN s
    ELSE IF Len(s) = 2
         THEN (IF Composes(s, 1) THEN <<IF s[1] = "e" THEN "eacute" ELSE "Eacute">> ELSE s)
         ELSE NFCAt(s, IF Composes(s, Len(s) \div 2) THEN (Len(s) \div 2) + 1 ELSE Len(s) \div 2)
\* unicodedata.normalize("NFKD", s): composed letters decompose, each on its own
RECURSIVE NFKD(_)
NFKDAt(s, k) == NFKD(SubSeq(s, 1, k)) \o NFKD(SubSeq(s, k + 1, Len(s)))
NFKD(s) ==
    IF s = <<>> THEN <<>>
    ELSE IF Len(s) = 1
         THEN (IF s[1] = "eacute" THEN <<"e", "acute">>
               ELSE IF s[1] = "Eacute" THEN <<"E", "acute">>
               ELSE s)
         ELSE NFKDAt(s, Len(s) \div 2)

NotCombining(c) == ~IsCombining(c)
\* re.sub(r"[\u2010-\u2015]", "-", s): the dash-like characters become hyphens
DashToHyphen(c) == IF c = "emdash" THEN "-" ELSE c
DashesToHyphens(s) == [i \in 1..Len(s) |-> DashToHyphen(s[i])]
\* the characters re.sub(r"[^\w\s-]", "", s) keeps
KeptByPunctuationFilter(c) == IsWord(c) \/ IsSpace(c) \/ c = "-"

(***************************************************************************)
(* utils.py                                                                *)
(***************************************************************************)
\* sanitize_filename, lines 95-96
FoldCase(text, allow_uppercase) == IF ~allow_uppercase THEN Lower(text) ELSE text
\* sanitize_filename, lines 98-104
NormalizeAccents(text, allow_accents, require_ascii) ==
    IF allow_accents /\ ~require_ascii
    THEN NFC(text)
    ELSE SelectSeq(NFKD(text), NotCombining)
\* sanitize_filename, lines 107-108
EncodeAscii(text, require_ascii) == IF require_ascii THEN SelectSeq(text, IsAscii) ELSE text
\* sanitize_filename, lines 111-117
HandlePunctuation(text, allow_punctuation) ==
    IF ~allow_punctuation
    THEN SubRuns(SelectSeq(DashesToHyphens(text), KeptByPunctuationFilter), SpaceChars, <<" ">>)
    ELSE text
\* sanitize_filename, lines 120-121
HandleSpaces(text, allow_spaces) == IF ~allow_spaces THEN SubRuns(text, SpaceChars, <<"-">>) ELSE text

sanitize_filename(text, allow_accents, allow_punctuation, allow_spaces, allow_uppercase, require_ascii) ==
    LET t1 == StripSpace(text)
        t2 == FoldCase(t1, allow_uppercase)
        t3 == NormalizeAccents(t2, allow_accents, require_ascii)
        t4 == EncodeAscii(t3, require_ascii)
        t5 == HandlePunctuation(t4, allow_punctuation)
        t6 == HandleSpaces(t5, allow_spaces)
        t7 == SubRuns(t6, HyphenChars, <<"-">>)
    IN StripHyphen(t7)

apply_case_style(text, case_style) ==
    IF text = <<>> \/ case_style = None THEN text
    ELSE CASE case_style = "lower" -> Lower(text)
           [] case_style = "upper" -> Upper(text)
           [] case_style = "title" -> Title(text)
           [] case_style = "sentence" -> Capitalize(text)
           [] OTHER -> text


(***************************************************************************)
(* pathlib: PurePath.name, .suffix, .stem of a path without separators.    *)
(***************************************************************************)
\* Path(p).name: Path("") and Path(".") are the current directory, whose name is empty
PathName(p) == IF p = <<".">> THEN <<>> ELSE p
\* the index of the last "." of name, or 0 (str.rfind)
LastDot(name) ==
    IF \E i \in 1..Len(name) : name[i] = "."
    THEN CHOOSE i \in 1..Len(name) : name[i] = "." /\ \A j \in (i + 1)..Len(name) : name[j] # "."
    ELSE 0
\* PurePath.suffix: from the last dot, unless the dot is the first or the last character
HasSuffix(name) == LastDot(name) > 1 /\ LastDot(name) < Len(name)
Suffix(p) ==
    LET name == PathName(p)
    IN IF HasSuffix(name) THEN SubSeq(name, LastDot(name), Len(name)) ELSE <<>>
\* PurePath.stem
Stem(p) ==
    LET name == PathName(p)
    IN IF HasSuffix(name) THEN SubSeq(name, 1, LastDot(name) - 1) ELSE name

(***************************************************************************)
(* utils.py: the names that need a rename.  A regular expression without   *)
(* alternatives is a sequence of items, each a character class repeated    *)
(* min to max times; `(a|b)` and `(...)?` are written out as one sequence  *)
(* per alternative.  All of them are matched with re.IGNORECASE, from the  *)
(* start of the text (re.match); `anchored` says the expression ends in $. *)
(***************************************************************************)
\* \w, in lower case
WordChars == {LowerLetters[i] : i \in 1..Len(LowerLetters)} \cup Digits \cup {"_", "eacute"}
\* a literal text, one item per character
Lit(text) == [i \in 1..Len(text) |-> [cls |-> {LowerChar(text[i])}, min |-> 1, max |-> 1]]
\* a character class repeated min to max times, and once or more (max 0: no upper limit)
Rep(cls, min, max) == << [cls |-> cls, min |-> min, max |-> max] >>
Plus(cls) == << [cls |-> cls, min |-> 1, max |-> 0] >>
\* \d{4}-\d{2}-\d{2}
DateItems == Rep(Digits, 4, 4) \o Lit(<<"-">>) \o Rep(Digits, 2, 2) \o Lit(<<"-">>) \o Rep(Digits, 2, 2)

\* the items from the k-th on match s from its j-th character on
RECURSIVE MatchFrom(_, _, _, _, _)
MatchFrom(items, k, s, j, anchored) ==
    IF k > Len(items) THEN ~anchored \/ j > Len(s)
    ELSE \E n \in items[k].min..(IF items[k].max = 0 THEN Len(s) - j + 1
                                   ELSE Min(items[k].max, Len(s) - j + 1)) :
            /\ \A i \in j..(j + n - 1) : LowerChar(s[i]) \in items[k].cls
            /\ MatchFrom(items, k + 1, s, j + n, anchored)
\* re.match(pattern, s, re.IGNORECASE) for some pattern of the set
MatchesAny(patterns, s) == \E p \in patterns : MatchFrom(p.items, 1, s, 1, p.anchored)

\* UUID_PATTERN, lines 13-16
HexChars == Digits \cup {"a", "b", "c", "d", "e", "f"}
UUID_PATTERN ==
    { [items |-> Rep(HexChars, 8, 8) \o Lit(<<"-">>) \o Rep(HexChars, 4, 4) \o Lit(<<"-">>)
                    \o Rep(HexChars, 4, 4) \o Lit(<<"-">>) \o Rep(HexChars, 4, 4) \o Lit(<<"-">>)
                    \o Rep(HexChars, 12, 12),
       anchored |-> TRUE] }
\* str.startswith
StartsWith(s, prefix) == Len(s) >= Len(prefix) /\ SubSeq(s, 1, Len(prefix)) = prefix

is_camera_filename(filename) ==
    \/ StartsWith(Upper(Stem(filename)), <<"I", "M", "G", "-">>)
    \/ StartsWith(Upper(Stem(filename)), <<"I", "M", "G", "_">>)
    \/ MatchesAny(UUID_PATTERN, Stem(filename))

\* the optional groups of line 45: (\s\d+)? and (?:\s\w+\s\d{1,2}\.\d{1,2}\s?\w+)?
ScreenshotNumber == {<<>>, Rep(SpaceChars, 1, 1) \o Plus(Digits)}
ScreenshotTime ==
    {<<>>,
     Rep(SpaceChars, 1, 1) \o Plus(WordChars) \o Rep(SpaceChars, 1, 1) \o Rep(Digits, 1, 2)
         \o Lit(<<".">>) \o Rep(Digits, 1, 2) \o Rep(SpaceChars, 0, 1) \o Plus(WordChars)}
\* is_screenshot_filename, lines 42-49
ScreenshotPatterns ==
    { [items |-> Lit(<<"C", "l", "e", "a", "n", "S", "h", "o", "t", " ">>) \o DateItems, anchored |-> FALSE],
      [items |-> Lit(<<"S", "c", "r", "e", "e", "n", "F", "l", "o", "a", "t", " ", "S", "h", "o", "t">>),
       anchored |-> FALSE],
      [items |-> Lit(<<"P", "a", "s", "t", "e", "d", " ", "i", "m", "a", "g", "e", " ">>) \o Plus(Digits),
       anchored |-> FALSE],
      [items |-> Lit(<<"P", "i", "c", "t", "u", "r", "e", " ">>) \o Plus(Digits), anchored |-> TRUE],
      [items |-> Lit(<<"P", "i", "c", "t", "u", "r", "e", " ">>) \o Plus(Digits)
                    \o Rep(SpaceChars, 1, 1) \o Plus(Digits),
       anchored |-> TRUE],
      [items |-> Lit(<<"S", "k", "i", "t", "c", "h", " ">>) \o DateItems, anchored |-> TRUE] }
    \cup { [items |-> Lit(<<"S", "c", "r", "e", "e", "n">>) \o Lit(w) \o number \o Rep(SpaceChars, 0, 1)
                         \o DateItems \o time,
            anchored |-> TRUE] :
           w \in {<<"s", "h", "o", "t">>, <<"c", "a", "p">>}, number \in ScreenshotNumber, time \in ScreenshotTime }
is_screenshot_filename(filename) == MatchesAny(ScreenshotPatterns, Stem(filename))

\* is_untitled_filename, line 57: ^untitled(\s\d+)?$
UntitledPatterns ==
    { [items |-> Lit(<<"u", "n", "t", "i", "t", "l", "e", "d">>), anchored |-> TRUE],
      [items |-> Lit(<<"u", "n", "t", "i", "t", "l", "e", "d">>) \o Rep(SpaceChars, 1, 1) \o Plus(Digits),
       anchored |-> TRUE] }
is_untitled_filename(filename) == MatchesAny(UntitledPatterns, Stem(filename))

\* needs_rename, line 64
needs_rename(filename) ==
    is_camera_filename(filename) \/ is_screenshot_filename(filename) \/ is_untitled_filename(filename)

\* image_utils.py, lines 114-117
IMAGE_EXTS ==
    { <<".", "j", "p", "g">>, <<".", "j", "p", "e", "g">>, <<".", "p", "n", "g">>, <<".", "g", "i", "f">>,
      <<".", "b", "m", "p">>, <<".", "h", "e", "i", "c">>, <<".", "w", "e", "b", "p">>,
      <<".", "t", "i", "f", "f">>, <<".", "t", "i", "f">> }
is_image_file(path) == Lower(Suffix(path)) \in IMAGE_EXTS

(***************************************************************************)
(* rename_image_files.py: process_filename.  options is a RenameOptions    *)
(* record; allow_spaces is "True", "False" or None, case_style a style     *)
(* name or None (None: infer from the original name).                      *)
(***************************************************************************)
\* process_filename, lines 65-69
AllowSpaces(original, options) ==
    IF options.allow_spaces = None
    THEN AnyChar(original, SpaceChars)
    ELSE options.allow_spaces = "True"
\* process_filename, lines 72-77
HandleCase(original, base, options) ==
    IF options.case_style = None
    THEN (IF ~AnyChar(original, UpperChars) THEN Lower(base) ELSE base)
    ELSE apply_case_style(base, options.case_style)

process_filename(original, new_name, options) ==
    LET ext == Suffix(original)
        base == StripSpace(SelectSeq(Stem(new_name), KeptByPunctuationFilter))
        cased == HandleCase(original, base, options)
    IN sanitize_filename(cased, TRUE, TRUE, AllowSpaces(original, options), TRUE, FALSE) \o ext


(***************************************************************************)
(* State.                                                                  *)
(***************************************************************************)
VARIABLES
    clock,          \* time.time(), in ticks of 0.1 s
    limiter,        \* RateLimiter: _current_backoff, _last_error_time, _last_request_time
    lock,           \* RateLimiter._lock (asyncio.Lock): its holder and its FIFO of waiters
    co,             \* per caller, its RateLimiter coroutine on the event loop
    running,        \* the coroutine the event loop is executing between two awaits
    error_streak,   \* history: on_rate_limit calls since the last on_success
    options,        \* CliOptions: dry_run, jobs, rename_options
    os_name,        \* os.name, which decides what Path.rename does to an existing target
    fs,             \* the directory: file name -> content (the file's original identity)
    files,          \* what iter_image_files has still to yield
    main,           \* rename_image_files / process_batch: position, active_tasks, counts
    task,           \* per candidate, its process_with_progress task
    th,             \* per candidate, its process_image worker thread
    task_semaphore, \* free slots of the BoundedSemaphore
    is_cancelled,   \* the module's global is_cancelled (line 100)
    sigint_flag,    \* rename_image_files' local is_cancelled (line 370), which sigint_handler sets
    exit_status,    \* the status the process has exited with, as a set: empty while it runs
    tree,           \* the file system under the input paths: path -> "file" or "dir"
    walk,           \* iter_image_files: the stack of its (recursive) generator frames
    yielded,        \* what iter_image_files has yielded to its consumer so far
    warned,         \* the paths iter_image_files has printed a warning about
    call            \* a function of utils.py called on its own: its arguments, position and results

\* generators.py, lines 16-17
MAX_RETRIES == 3
MAX_FILENAME_LENGTH == 255

\* rate_limiter.py, in ticks
INITIAL_BACKOFF == 10
MAX_BACKOFF == 600
BACKOFF_FACTOR == 2
min_request_interval == 1

\* bounds of the model
StartTime == 1
MaxClock == 23
CoarseTick == 10
NumCallers == 2
MaxStreak == 7

vars == <<clock, limiter, lock, co, running, error_streak, options, os_name, call, fs, files, main, task, th,
          task_semaphore, is_cancelled, sigint_flag, exit_status, tree, walk, yielded, warned>>
\* the cancellation flags and the exit of the process
signals == <<is_cancelled, sigint_flag, exit_status>>
\* the state of the rename pipeline, which the rate limiter never touches
\* the enumeration of the input paths (list_files.py)
enumerator == <<tree, walk, yielded, warned>>
pipeline == <<options, os_name, call, fs, files, main, task, th, task_semaphore, signals, enumerator>>

\* no function is called on its own
NoCall == [fn |-> None]

\* a caller's coroutine: the operation, where it is, its locals `now` (line 23), the time
\* its sleep ends, its return value; window_end and slept record the sleeps it met
IdleCo == [op |-> None, pc |-> "idle", now |-> 0, wake |-> 0, ret |-> 0, window_end |-> 0, slept |-> {}]
Callers == DOMAIN co

\* RateLimiter.__init__
NewLimiter == [current_backoff |-> INITIAL_BACKOFF, last_error_time |-> 0, last_request_time |-> 0]
NewLock == [holder |-> 0, waiters |-> <<>>]

\* the event loop is between callbacks: a scheduled callback may run
LoopIdle == running = None

(***************************************************************************)
(* asyncio.Lock, as `async with self._lock` uses it.  acquire() takes the  *)
(* lock at once when it is free and nobody waits; otherwise the caller     *)
(* queues and is woken first-in first-out by release().                    *)
(***************************************************************************)
LockIgnored(c) == co[c].pc = "scheduled"
LockAvailable(c) ==
    /\ lock.holder = 0
    /\ \/ co[c].pc = "scheduled" /\ lock.waiters = <<>>
       \/ co[c].pc = "lock_wait" /\ lock.waiters # <<>> /\ Head(lock.waiters) = c
\* the lock when c has taken it / has left the `async with` block
LockTakenBy(c) ==
    [holder |-> c, waiters |-> IF co[c].pc = "lock_wait" THEN Tail(lock.waiters) ELSE lock.waiters]
LockKept(l) == l
LockReleased(l) == [l EXCEPT !.holder = 0]

\* a coroutine started by run_coroutine_threadsafe finds the lock taken and queues
CoEnqueue(c) ==
    /\ LoopIdle
    /\ co[c].pc = "scheduled"
    /\ ~(lock.holder = 0 /\ lock.waiters = <<>>)
    /\ co' = [co EXCEPT ![c].pc = "lock_wait"]
    /\ lock' = [lock EXCEPT !.waiters = Append(@, c)]
    /\ UNCHANGED <<clock, limiter, running, error_streak>>
    /\ UNCHANGED pipeline

ShortBackoffSleep(now) ==
    IF limiter.last_error_time > 0 /\ now - limiter.last_error_time < limiter.current_backoff - 1
    THEN limiter.current_backoff - (now - limiter.last_error_time) - 1
    ELSE 0
\* before_request, lines 26-29: the sleep that waits out the backoff window (0: none)
BackoffSleep(now) ==
    IF limiter.last_error_time > 0 /\ now - limiter.last_error_time < limiter.current_backoff
    THEN limiter.current_backoff - (now - limiter.last_error_time)
    ELSE 0
NoIntervalSleep(now) == 0
\* before_request, lines 32-34: the sleep that spaces requests (0: none)
IntervalSleep(now) ==
    IF now - limiter.last_request_time < min_request_interval
    THEN min_request_interval - (now - limiter.last_request_time)
    ELSE 0

\* before_request, line 36 and the end of the `async with` block
BeforeRequestFinish(c, l) ==
    /\ limiter' = [limiter EXCEPT !.last_request_time = clock]
    /\ lock' = LockReleased(l)
    /\ co' = [co EXCEPT ![c].pc = "returned", ![c].now = 0, ![c].wake = 0, ![c].window_end = 0]

\* before_request, lines 31-36, with the `now` read at line 23
BeforeRequestInterval(c, now, l) ==
    IF IntervalSleep(now) > 0
    THEN /\ co' = [co EXCEPT ![c].pc = "sleep_interval", ![c].now = now,
                             ![c].wake = clock + IntervalSleep(now),
                             ![c].slept = @ \cup {"interval"}]
         /\ lock' = l
         /\ UNCHANGED limiter
    ELSE BeforeRequestFinish(c, l)

\* before_request, lines 22-29: take the lock, read the time, sleep if in backoff
BeforeRequestEnter(c) ==
    /\ LoopIdle
    /\ co[c].op = "before_request"
    /\ LockAvailable(c)
    /\ IF BackoffSleep(clock) > 0
       THEN /\ co' = [co EXCEPT ![c].pc = "sleep_backoff", ![c].now = clock,
                                ![c].wake = clock + BackoffSleep(clock),
                                ![c].window_end = limiter.last_error_time + limiter.current_backoff,
                                ![c].slept = {"backoff"}]
            /\ lock' = LockTakenBy(c)
            /\ UNCHANGED limiter
       ELSE BeforeRequestInterval(c, clock, LockTakenBy(c))
    /\ UNCHANGED <<clock, running, error_streak>>
    /\ UNCHANGED pipeline

\* asyncio.sleep of line 29 is over
BeforeRequestWakeBackoff(c) ==
    /\ LoopIdle
    /\ co[c].pc = "sleep_backoff"
    /\ clock >= co[c].wake
    /\ BeforeRequestInterval(c, co[c].now, lock)
    /\ UNCHANGED <<clock, running, error_streak>>
    /\ UNCHANGED pipeline

\* asyncio.sleep of line 34 is over
BeforeRequestWakeInterval(c) ==
    /\ LoopIdle
    /\ co[c].pc = "sleep_interval"
    /\ clock >= co[c].wake
    /\ BeforeRequestFinish(c, lock)
    /\ UNCHANGED <<clock, running, error_streak>>
    /\ UNCHANGED pipeline

\* on_success, lines 40-42
OnSuccess(c) ==
    /\ LoopIdle
    /\ co[c].op = "on_success"
    /\ LockAvailable(c)
    /\ limiter' = [limiter EXCEPT !.current_backoff = INITIAL_BACKOFF, !.last_error_time = 0]
    /\ lock' = LockReleased(LockTakenBy(c))
    /\ co' = [co EXCEPT ![c].pc = "returned"]
    /\ error_streak' = 0
    /\ UNCHANGED <<clock, running>>
    /\ UNCHANGED pipeline

AddedBackoff(b) == Min(b + INITIAL_BACKOFF, MAX_BACKOFF)
UncappedBackoff(b) == b * BACKOFF_FACTOR
\* on_rate_limit, line 48
NextBackoff(b) == Min(b * BACKOFF_FACTOR, MAX_BACKOFF)

\* on_rate_limit, lines 46-49
OnRateLimit(c) ==
    /\ LoopIdle
    /\ co[c].op = "on_rate_limit"
    /\ LockAvailable(c)
    /\ limiter' = [limiter EXCEPT !.last_error_time = clock,
                                  !.current_backoff = NextBackoff(@)]
    /\ lock' = LockReleased(LockTakenBy(c))
    /\ co' = [co EXCEPT ![c].pc = "returned", ![c].ret = NextBackoff(limiter.current_backoff)]
    /\ error_streak' = error_streak + 1
    /\ UNCHANGED <<clock, running>>
    /\ UNCHANGED pipeline

\* the instants something waits for: the end of the request interval, of the backoff
\* window and of the sleeps
Deadlines ==
    {limiter.last_request_time + min_request_interval}
        \cup (IF limiter.last_error_time > 0
              THEN {limiter.last_error_time + limiter.current_backoff} ELSE {})
        \cup {co[c].wake : c \in {d \in Callers : co[d].pc \in {"sleep_backoff", "sleep_interval"}}}
\* the earliest deadline still ahead
NextDeadline ==
    CHOOSE d \in Deadlines : clock < d /\ \A e \in Deadlines : clock < e => d <= e

\* time.time() advances, by a second at a time and never past a deadline without
\* stopping at it; once every deadline is behind, more idle time only shifts what follows
Tick ==
    /\ \E d \in Deadlines : clock < d
    /\ clock' = Min(clock + CoarseTick, NextDeadline)
    /\ clock' <= MaxClock
    /\ UNCHANGED <<limiter, lock, co, running, error_streak>>
    /\ UNCHANGED pipeline

(***************************************************************************)
(* The rename pipeline: its inputs.                                        *)
(***************************************************************************)
\* bounds of the model
MaxJobs == 2

\* the candidates iter_image_files yields, by index, all in one directory
Candidates ==
    << <<"I", "M", "G", "_", "1", ".", "j", "p", "g">>,
       <<"i", "m", "g", " ", "2", ".", "j", "p", "g">>,
       <<"I", "M", "G", "_", "3", ".", "j", "p", "g">> >>
CandidateIds == 1..Len(Candidates)
\* a file of the directory that is no candidate
OtherFile == <<"e", ".", "j", "p", "g">>
\* the sequence iter_image_files yields; 0 is an EmptyDirectoryError
InitialFiles == <<1, 0, 2, 3>>
\* the directory before the run: content i is candidate i's image, 0 the other file's
InitialFs ==
    [n \in {Candidates[c] : c \in CandidateIds} \cup {OtherFile} |->
        IF n = OtherFile THEN 0 ELSE CHOOSE c \in CandidateIds : Candidates[c] = n]

\* the texts generate_filename may return
GenOutputs ==
    { <<"e">>,
      <<"2", "0", "2", "4", "-", "0", "1", "-", "0", "2", "-", "e">>,
      <<"E", " ", "a", "!">> }
\* a datetime is <<year, month, day>>; None, where a datetime or a text is expected, is
\* the empty sequence: the code only tests these values for truth, and None and "" are
\* both false
NoDate == <<>>
NoText == <<>>
\* the dates EXIF metadata may hold
ExifDates == {NoDate, <<2024, 1, 2>>}
\* the RenameOptions of the runs
RenameOptionsSet ==
    { [add_dates |-> TRUE, allow_spaces |-> None, case_style |-> None],
      [add_dates |-> FALSE, allow_spaces |-> "False", case_style |-> "title"] }

(***************************************************************************)
(* The new name, as process_image computes it (lines 198-220).             *)
(***************************************************************************)
\* the decimal digits of n, at least width of them (the zero padding of %m and %d)
DigitChars == <<"0", "1", "2", "3", "4", "5", "6", "7", "8", "9">>
RECURSIVE FormatInt(_, _)
FormatInt(n, width) ==
    IF n < 10 /\ width <= 1 THEN <<DigitChars[n + 1]>>
    ELSE FormatInt(n \div 10, width - 1) \o <<DigitChars[(n % 10) + 1]>>
\* datetime.strftime("%Y-%m-%d"), for a year of four digits
StrfDate(date) ==
    FormatInt(date[1], 4) \o <<"-">> \o FormatInt(date[2], 2) \o <<"-">> \o FormatInt(date[3], 2)

\* utils.read_exif_date: exif is the date the file's metadata holds, or NoDate
read_exif_date(image_path, exif) ==
    IF Lower(image_path) \notin {<<".", "j", "p", "g">>, <<".", "j", "p", "e", "g">>}
    THEN NoDate
    ELSE exif

\* get_image_date, lines 94-96
FormatDate(date) == IF date # NoDate THEN StrfDate(date) ELSE NoText
get_image_date(image_path, exif) == FormatDate(read_exif_date(image_path, exif))

\* s starts with \d{4}-\d{2}-\d{2}-
HasLeadingDate(s) ==
    /\ Len(s) >= 11
    /\ \A i \in {1, 2, 3, 4, 6, 7, 9, 10} : s[i] \in Digits
    /\ \A i \in {5, 8, 11} : s[i] = "-"
\* re.sub(r"^\d{4}-\d{2}-\d{2}-", "", s)
StripLeadingDate(s) == IF HasLeadingDate(s) THEN SubSeq(s, 12, Len(s)) ELSE s

\* process_image, lines 154 and 165: the local exif_date
ExifDate(image_name, add_dates, exif) ==
    IF add_dates THEN get_image_date(image_name, exif) ELSE NoText

\* process_image, lines 207-210
DatePart(exif_date, date_from_name, add_dates) ==
    IF date_from_name # NoText THEN date_from_name
    ELSE IF add_dates THEN exif_date ELSE NoText
\* process_image, lines 214-218
Separator(image_name, allow_spaces) ==
    IF allow_spaces = "True" \/ (allow_spaces = None /\ AnyChar(image_name, SpaceChars))
    THEN <<" ">>
    ELSE <<"-">>
\* process_image, line 219
NewStem(date_part, separator, clean_name) ==
    IF date_part # NoText THEN date_part \o separator \o clean_name ELSE clean_name

\* process_image, lines 198-220: the new file name from the model's response
NewName(image_name, response, rename_options, exif_date, exif) ==
    LET generated_name == StripLeadingDate(response)
        clean_name == process_filename(image_name, generated_name, rename_options)
        date_part == DatePart(exif_date, get_image_date(image_name, exif), rename_options.add_dates)
        separator == Separator(image_name, rename_options.allow_spaces)
        new_stem == NewStem(date_part, separator, clean_name)
    IN process_filename(image_name, new_stem, rename_options)

(***************************************************************************)
(* The rename pipeline.  rename_image_files and process_batch are the main *)
(* coroutine; each candidate gets a process_with_progress task on the      *)
(* event loop and, through asyncio.to_thread, a process_image thread.      *)
(* Code between two awaits runs without another coroutine in between (the  *)
(* variable running); threads run at any time.                             *)
(***************************************************************************)
\* late records that the task's thread finished its rename after SIGINT had been handled
NoTask == [pc |-> "none", outcome |-> None, result |-> NoText, late |-> FALSE]
\* requests counts the thread's calls of generate_filename
NoThread ==
    [pc |-> "none", exif_date |-> NoText, response |-> NoText, new_name |-> NoText, error |-> None,
     requests |-> 0, late |-> FALSE]
NewMain == [pc |-> "iterate", active_tasks |-> {}, successful |-> 0, failed |-> 0, empty_directory_errors |-> 0]

\* the rest of the state, for the steps of the main coroutine and of the tasks
limiter_side == <<clock, limiter, lock, co, error_streak>>

NeverFull == FALSE
\* process_batch, line 295
BatchFull == Cardinality(main.active_tasks) >= options.jobs

TaskNotCreated(c) == task
\* process_batch, lines 304-315: create the task of candidate c
TaskCreated(c) == [task EXCEPT ![c] = [NoTask EXCEPT !.pc = "created"]]

\* process_batch, lines 292-294 with rename_image_files, lines 397-398
MainYieldEmptyDirectory ==
    /\ running = "main" /\ main.pc = "iterate"
    /\ files # <<>> /\ Head(files) = 0
    /\ main' = [main EXCEPT !.empty_directory_errors = @ + 1]
    /\ files' = Tail(files)
    /\ UNCHANGED <<limiter_side, running, options, os_name, call, fs, task, th, task_semaphore, signals, enumerator>>

\* process_batch, lines 295 and 304-315, with room for the task
MainCreateTask ==
    /\ running = "main" /\ main.pc = "iterate"
    /\ files # <<>> /\ Head(files) # 0
    /\ ~BatchFull
    /\ task' = TaskCreated(Head(files))
    /\ main' = [main EXCEPT !.active_tasks = @ \cup {Head(files)}]
    /\ files' = Tail(files)
    /\ UNCHANGED <<limiter_side, running, options, os_name, call, fs, th, task_semaphore, signals, enumerator>>

\* process_batch, lines 295-296: asyncio.wait(FIRST_COMPLETED) suspends the main coroutine
MainAwaitFirst ==
    /\ running = "main" /\ main.pc = "iterate"
    /\ files # <<>> /\ Head(files) # 0
    /\ BatchFull
    /\ main' = [main EXCEPT !.pc = "wait_first"]
    /\ running' = None
    /\ UNCHANGED <<limiter_side, options, os_name, call, fs, files, task, th, task_semaphore, signals, enumerator>>

CountedUnlessCancelled(m, done) ==
    IF sigint_flag THEN m
    ELSE [m EXCEPT !.successful = @ + Cardinality({c \in done : task[c].outcome = "returned"}),
                   !.failed = @ + Cardinality({c \in done : task[c].outcome = "raised"})]
\* the results the consumer counts (rename_image_files, lines 399-402)
Counted(m, done) ==
    [m EXCEPT !.successful = @ + Cardinality({c \in done : task[c].outcome = "returned"}),
              !.failed = @ + Cardinality({c \in done : task[c].outcome = "raised"})]
DoneWithoutError == {c \in main.active_tasks : task[c].pc = "done" /\ task[c].outcome = "returned"}
\* asyncio.wait (lines 296 and 319): the tasks that are over, by return or by exception
DoneTasks == {c \in main.active_tasks : task[c].pc = "done"}

\* process_batch, lines 296-315: a task has completed; its results are yielded, and the
\* task of the candidate in hand is created
MainResumeFirst ==
    /\ LoopIdle /\ main.pc = "wait_first"
    /\ DoneTasks # {}
    /\ main' = [Counted(main, DoneTasks) EXCEPT
                   !.pc = "iterate",
                   !.active_tasks = (@ \ DoneTasks) \cup {Head(files)}]
    /\ task' = TaskCreated(Head(files))
    /\ files' = Tail(files)
    /\ running' = "main"
    /\ UNCHANGED <<limiter_side, options, os_name, call, fs, th, task_semaphore, signals, enumerator>>

\* process_batch, lines 318-319: the candidates are exhausted; wait for every task
MainAwaitAll ==
    /\ running = "main" /\ main.pc = "iterate"
    /\ files = <<>>
    /\ main' = [main EXCEPT !.pc = IF main.active_tasks # {} THEN "wait_all" ELSE "finished"]
    /\ running' = None
    /\ UNCHANGED <<limiter_side, options, os_name, call, fs, files, task, th, task_semaphore, signals, enumerator>>

\* process_batch, lines 319-324, and the end of rename_image_files
MainResumeAll ==
    /\ LoopIdle /\ main.pc = "wait_all"
    /\ DoneTasks = main.active_tasks
    /\ main' = [Counted(main, DoneTasks) EXCEPT !.pc = "finished"]
    /\ UNCHANGED <<limiter_side, running, options, os_name, call, fs, files, task, th, task_semaphore, signals, enumerator>>

\* process_with_progress, lines 246-262: take a slot of the semaphore; return at once,
\* giving the slot back, if the module's is_cancelled is set, else start the thread
TaskStart(c) ==
    /\ LoopIdle /\ task[c].pc = "created"
    /\ task_semaphore > 0
    /\ IF is_cancelled
       THEN /\ task' = [task EXCEPT ![c] = [NoTask EXCEPT !.pc = "done", !.outcome = "returned"]]
            /\ UNCHANGED <<th, task_semaphore>>
       ELSE /\ task_semaphore' = task_semaphore - 1
            /\ task' = [task EXCEPT ![c].pc = "to_thread"]
            /\ th' = [th EXCEPT ![c] = [NoThread EXCEPT !.pc = "load"]]
    /\ UNCHANGED <<limiter_side, running, options, os_name, call, fs, files, main, signals, enumerator>>

\* process_with_progress, lines 252 and 263-274: the thread is over; report, return or
\* raise, and give the slot back
TaskResume(c) ==
    /\ LoopIdle /\ task[c].pc = "to_thread"
    /\ th[c].pc \in {"returned", "raised"}
    /\ task' = [task EXCEPT ![c] = [pc |-> "done", outcome |-> th[c].pc, result |-> th[c].new_name,
                                     late |-> th[c].late]]
    /\ th' = [th EXCEPT ![c] = [NoThread EXCEPT !.pc = "exited", !.error = th[c].error,
                                                !.requests = th[c].requests]]
    /\ task_semaphore' = task_semaphore + 1
    /\ UNCHANGED <<limiter_side, running, options, os_name, call, fs, files, main, signals, enumerator>>

(***************************************************************************)
(* process_image, on the thread of candidate c.                            *)
(***************************************************************************)
Unscheduled(c, op) == co
\* asyncio.run_coroutine_threadsafe(rate_limiter.<op>(), loop)
Scheduled(c, op) == [co EXCEPT ![c] = [IdleCo EXCEPT !.op = op, !.pc = "scheduled"]]
\* future.result() has returned
Collected(c) == [co EXCEPT ![c] = IdleCo]

\* the frame of a thread step that touches neither the limiter's coroutines nor the files
thread_frame ==
    <<clock, limiter, lock, running, error_streak, options, os_name, call, files, main, task, task_semaphore, signals, enumerator>>

\* lines 129-171: the image is opened, resized and converted; before_request is scheduled
ThLoad(c) ==
    /\ th[c].pc = "load"
    /\ Candidates[c] \in DOMAIN fs
    /\ \E exif \in ExifDates :
           th' = [th EXCEPT ![c].pc = "before_request",
                            ![c].exif_date = ExifDate(Candidates[c], options.rename_options.add_dates, exif)]
    /\ co' = Scheduled(c, "before_request")
    /\ UNCHANGED <<thread_frame, fs>>

\* lines 129-167 and 230-232: opening or converting the image raises
ThLoadFails(c) ==
    /\ th[c].pc = "load"
    /\ th' = [th EXCEPT ![c].pc = "raised", ![c].error = "load"]
    /\ UNCHANGED <<thread_frame, fs, co>>

\* line 171: before_request has returned
ThBeforeRequestDone(c) ==
    /\ th[c].pc = "before_request"
    /\ co[c].pc = "returned"
    /\ co' = Collected(c)
    /\ th' = [th EXCEPT ![c].pc = "generate"]
    /\ UNCHANGED <<thread_frame, fs>>

\* lines 176-184: generate_filename returns response; on_success is scheduled
ThGenerate(c, response) ==
    /\ th[c].pc = "generate"
    /\ th' = [th EXCEPT ![c].pc = "on_success", ![c].response = response, ![c].requests = @ + 1]
    /\ co' = Scheduled(c, "on_success")
    /\ UNCHANGED <<thread_frame, fs>>

\* lines 186-189: the provider answers "Resource has been exhausted"
ThGenerateRateLimited(c) ==
    /\ th[c].pc = "generate"
    /\ th' = [th EXCEPT ![c].pc = "on_rate_limit", ![c].requests = @ + 1]
    /\ co' = Scheduled(c, "on_rate_limit")
    /\ UNCHANGED <<thread_frame, fs>>

ThGenerateFailsReported(c) ==
    /\ th[c].pc = "generate"
    /\ th' = [th EXCEPT ![c].pc = "raised", ![c].error = "generate", ![c].requests = @ + 1]
    /\ co' = Scheduled(c, "on_rate_limit")
    /\ UNCHANGED <<thread_frame, fs>>

\* lines 186 and 196: any other failure of the request, its 30 s timeout included
ThGenerateFails(c) ==
    /\ th[c].pc = "generate"
    /\ th' = [th EXCEPT ![c].pc = "raised", ![c].error = "generate", ![c].requests = @ + 1]
    /\ UNCHANGED <<thread_frame, fs, co>>

\* lines 190-196: on_rate_limit has returned the backoff; the exception is raised again
ThRateLimited(c) ==
    /\ th[c].pc = "on_rate_limit"
    /\ co[c].pc = "returned"
    /\ co' = Collected(c)
    /\ th' = [th EXCEPT ![c].pc = "raised", ![c].error = "Resource has been exhausted"]
    /\ UNCHANGED <<thread_frame, fs>>

NotRenamed(f, src, dst) == f
\* Path.rename (os.rename): the directory once src is renamed to dst
Renamed(f, src, dst) ==
    [n \in (DOMAIN f \ {src}) \cup {dst} |-> IF n = dst THEN f[src] ELSE f[n]]
\* os.rename raises: no source, or (Windows only) a target that exists already
RenameRaises(src, dst) ==
    \/ src \notin DOMAIN fs
    \/ os_name = "nt" /\ dst \in DOMAIN fs /\ dst # src
\* os.rename may also refuse a name longer than the file system takes (ENAMETOOLONG);
\* the limit is the file system's, 255 on most (generators.py, line 17)
RenameRefusals(dst) == IF Len(dst) > MAX_FILENAME_LENGTH THEN {TRUE, FALSE} ELSE {FALSE}

KeepName(image_name, new_name) == image_name
\* line 224: image_path.with_name(new_name), a path of the same directory
WithName(image_name, new_name) == new_name

RenameAlways == TRUE
\* line 225
RenamePerformed == ~options.dry_run

\* lines 185 and 198-232: on_success has returned; the new name is computed and, unless
\* this is a dry run, the file is renamed
ThRename(c) ==
    /\ th[c].pc = "on_success"
    /\ co[c].pc = "returned"
    /\ co' = Collected(c)
    /\ \E exif \in ExifDates :
        LET image_name == Candidates[c]
            new_name == NewName(image_name, th[c].response, options.rename_options, th[c].exif_date, exif)
            new_path == WithName(image_name, new_name)
        IN \E refused \in RenameRefusals(new_path) :
            IF RenamePerformed /\ (refused \/ RenameRaises(image_name, new_path))
            THEN /\ th' = [th EXCEPT ![c].pc = "raised", ![c].error = "rename"]
                 /\ UNCHANGED fs
            ELSE /\ th' = [th EXCEPT ![c].pc = "returned", ![c].new_name = new_name,
                                     ![c].late = sigint_flag]
                 /\ fs' = IF RenamePerformed THEN Renamed(fs, image_name, new_path) ELSE fs
    /\ UNCHANGED thread_frame

(***************************************************************************)
(* Signals and the end of the process.  SIGINT is handled on the main      *)
(* thread, between any two steps of the event loop, by the handler that    *)
(* rename_image_files installs for the time of the run (lines 379-420).    *)
(* handle_sigint (lines 103-107), the only code that sets the module's     *)
(* is_cancelled, is registered nowhere and never runs.                     *)
(***************************************************************************)
ExitAtOnce == TRUE
\* line 374
CancelPending == sigint_flag

\* sigint_handler, lines 372-377.  sys.exit(1) raises SystemExit on the main thread: the
\* event loop runs no further callback; the worker threads are not interrupted
Sigint ==
    /\ exit_status = {} /\ main.pc # "finished"
    /\ IF CancelPending
       THEN /\ exit_status' = {1}
            /\ running' = "exited"
            /\ UNCHANGED sigint_flag
       ELSE /\ sigint_flag' = TRUE
            /\ UNCHANGED <<exit_status, running>>
    /\ UNCHANGED <<limiter_side, options, os_name, call, fs, files, main, task, th, task_semaphore, is_cancelled, enumerator>>

\* rename_image_files returns None (line 420), whatever it counted, and the process ends
ProcessExit ==
    /\ main.pc = "finished" /\ exit_status = {}
    /\ exit_status' = {0}
    /\ UNCHANGED <<limiter_side, running, options, os_name, call, fs, files, main, task, th, task_semaphore>>
    /\ UNCHANGED <<is_cancelled, sigint_flag, enumerator>>

\* the enumeration is not part of these runs: the variable files stands for what it yields
EnumeratorIdle == tree = <<>> /\ walk = <<>> /\ yielded = <<>> /\ warned = <<>>

(***************************************************************************)
(* The run: rename_image_files over the candidates, in either mode.        *)
(***************************************************************************)
Init ==
    /\ clock = StartTime
    /\ limiter = NewLimiter
    /\ lock = NewLock
    /\ co = [c \in CandidateIds |-> IdleCo]
    /\ running = "main"
    /\ error_streak = 0
    /\ options \in [dry_run : BOOLEAN, jobs : 1..MaxJobs, rename_options : RenameOptionsSet]
    /\ os_name \in {"posix", "nt"}
    /\ fs = InitialFs
    /\ files = InitialFiles
    /\ main = NewMain
    /\ task = [c \in CandidateIds |-> NoTask]
    /\ th = [c \in CandidateIds |-> NoThread]
    /\ task_semaphore = options.jobs
    /\ is_cancelled = FALSE
    /\ sigint_flag = FALSE
    /\ exit_status = {}
    /\ call = NoCall
    /\ EnumeratorIdle

Next ==
    \/ MainYieldEmptyDirectory
    \/ MainCreateTask
    \/ MainAwaitFirst
    \/ MainResumeFirst
    \/ MainAwaitAll
    \/ MainResumeAll
    \/ ProcessExit
    \/ \E c \in CandidateIds : TaskStart(c)
    \/ \E c \in CandidateIds : TaskResume(c)
    \/ \E c \in CandidateIds : ThLoad(c)
    \/ \E c \in CandidateIds : ThLoadFails(c)
    \/ \E c \in CandidateIds : ThBeforeRequestDone(c)
    \/ \E c \in CandidateIds, response \in GenOutputs : ThGenerate(c, response)
    \/ \E c \in CandidateIds : ThGenerateRateLimited(c)
    \/ \E c \in CandidateIds : ThGenerateFails(c)
    \/ \E c \in CandidateIds : ThRateLimited(c)
    \/ \E c \in CandidateIds : ThRename(c)
    \/ \E c \in Callers : CoEnqueue(c)
    \/ \E c \in Callers : BeforeRequestEnter(c)
    \/ \E c \in Callers : BeforeRequestWakeBackoff(c)
    \/ \E c \in Callers : BeforeRequestWakeInterval(c)
    \/ \E c \in Callers : OnSuccess(c)
    \/ \E c \in Callers : OnRateLimit(c)
    \/ Tick

Spec == Init /\ [][Next]_vars

(***************************************************************************)
(* The run over two candidates and an empty directory, with one slot or    *)
(* with more slots than candidates, in a dry run.                          *)
(***************************************************************************)
FewFiles == <<1, 0, 2>>
InitFew ==
    /\ clock = StartTime
    /\ limiter = NewLimiter
    /\ lock = NewLock
    /\ co = [c \in CandidateIds |-> IdleCo]
    /\ running = "main"
    /\ error_streak = 0
    /\ options \in [dry_run : {TRUE}, jobs : {1, Len(Candidates)},
                    rename_options : {[add_dates |-> TRUE, allow_spaces |-> None, case_style |-> None]}]
    /\ os_name = "posix"
    /\ fs = InitialFs
    /\ files = FewFiles
    /\ main = NewMain
    /\ task = [c \in CandidateIds |-> NoTask]
    /\ th = [c \in CandidateIds |-> NoThread]
    /\ task_semaphore = options.jobs
    /\ is_cancelled = FALSE
    /\ sigint_flag = FALSE
    /\ exit_status = {}
    /\ call = NoCall
    /\ EnumeratorIdle

SpecFew == InitFew /\ [][Next]_vars

\* every step of Next but ThRename
NextButRename ==
    \/ MainYieldEmptyDirectory
    \/ MainCreateTask
    \/ MainAwaitFirst
    \/ MainResumeFirst
    \/ MainAwaitAll
    \/ MainResumeAll
    \/ ProcessExit
    \/ \E c \in CandidateIds : TaskStart(c)
    \/ \E c \in CandidateIds : TaskResume(c)
    \/ \E c \in CandidateIds : ThLoad(c)
    \/ \E c \in CandidateIds : ThLoadFails(c)
    \/ \E c \in CandidateIds : ThBeforeRequestDone(c)
    \/ \E c \in CandidateIds, response \in GenOutputs : ThGenerate(c, response)
    \/ \E c \in CandidateIds : ThGenerateRateLimited(c)
    \/ \E c \in CandidateIds : ThGenerateFails(c)
    \/ \E c \in CandidateIds : ThRateLimited(c)
    \/ \E c \in Callers : CoEnqueue(c)
    \/ \E c \in Callers : BeforeRequestEnter(c)
    \/ \E c \in Callers : BeforeRequestWakeBackoff(c)
    \/ \E c \in Callers : BeforeRequestWakeInterval(c)
    \/ \E c \in Callers : OnSuccess(c)
    \/ \E c \in Callers : OnRateLimit(c)
    \/ Tick
\* a thread is where ThRename starts: the steps of ThRename are enabled
RenameReady == \E c \in CandidateIds : th[c].pc = "on_success" /\ co[c].pc = "returned"
\* weak fairness of ThRename, with its enabling condition written out
RenameFair == []<>(~RenameReady) \/ []<><<\E c \in CandidateIds : ThRename(c)>>_vars
\* the same runs when the event loop, the worker threads and the clock go on: the loop
\* runs a callback that is ready, the system schedules a thread that can run, the
\* requests to the generator end (by an answer, an error or the timeout), time passes
SpecFair == InitFew /\ [][Next]_vars /\ WF_vars(NextButRename) /\ RenameFair

(***************************************************************************)
(* The rate limiter under arbitrary callers: each caller calls any of the  *)
(* three operations, one call at a time, in any order and at any time.     *)
(***************************************************************************)
Ops == {"before_request", "on_success", "on_rate_limit"}
PendingErrors == Cardinality({c \in Callers : co[c].op = "on_rate_limit" /\ co[c].pc # "returned"})

Call(c, op) ==
    /\ co[c].pc = "idle"
    /\ op = "on_rate_limit" => error_streak + PendingErrors < MaxStreak
    /\ co' = [co EXCEPT ![c] = [IdleCo EXCEPT !.op = op, !.pc = "scheduled"]]
    /\ UNCHANGED <<clock, limiter, lock, running, error_streak>>
    /\ UNCHANGED pipeline

Collect(c) ==
    /\ co[c].pc = "returned"
    /\ co' = [co EXCEPT ![c] = IdleCo]
    /\ UNCHANGED <<clock, limiter, lock, running, error_streak>>
    /\ UNCHANGED pipeline

InitRL ==
    /\ clock = StartTime
    /\ limiter = NewLimiter
    /\ lock = NewLock
    /\ co = [c \in 1..NumCallers |-> IdleCo]
    /\ running = None
    /\ error_streak = 0
    /\ options = [dry_run |-> TRUE, jobs |-> 1, rename_options |-> CHOOSE o \in RenameOptionsSet : TRUE]
    /\ os_name = "posix"
    /\ fs = InitialFs
    /\ files = <<>>
    /\ main = [NewMain EXCEPT !.pc = "finished"]
    /\ task = [c \in CandidateIds |-> NoTask]
    /\ th = [c \in CandidateIds |-> NoThread]
    /\ task_semaphore = options.jobs
    /\ is_cancelled = FALSE
    /\ sigint_flag = FALSE
    /\ exit_status = {}
    /\ call = NoCall
    /\ EnumeratorIdle

NextRL ==
    \/ \E c \in Callers, op \in Ops : Call(c, op)
    \/ \E c \in Callers : CoEnqueue(c)
    \/ \E c \in Callers : BeforeRequestEnter(c)
    \/ \E c \in Callers : BeforeRequestWakeBackoff(c)
    \/ \E c \in Callers : BeforeRequestWakeInterval(c)
    \/ \E c \in Callers : OnSuccess(c)
    \/ \E c \in Callers : OnRateLimit(c)
    \/ \E c \in Callers : Collect(c)
    \/ Tick

SpecRL == InitRL /\ [][NextRL]_vars

(***************************************************************************)
(* The run under interrupts: SIGINT may arrive at any time, any number of  *)
(* times.                                                                  *)
(***************************************************************************)
SigintOutputs == {<<"e">>, <<"E", " ", "a", "!">>}

InitSigint ==
    /\ clock = StartTime
    /\ limiter = NewLimiter
    /\ lock = NewLock
    /\ co = [c \in CandidateIds |-> IdleCo]
    /\ running = "main"
    /\ error_streak = 0
    /\ options \in [dry_run : BOOLEAN, jobs : 1..MaxJobs,
                    rename_options : {[add_dates |-> TRUE, allow_spaces |-> None, case_style |-> None]}]
    /\ os_name = "posix"
    /\ fs = InitialFs
    /\ files = InitialFiles
    /\ main = NewMain
    /\ task = [c \in CandidateIds |-> NoTask]
    /\ th = [c \in CandidateIds |-> NoThread]
    /\ task_semaphore = options.jobs
    /\ is_cancelled = FALSE
    /\ sigint_flag = FALSE
    /\ exit_status = {}
    /\ call = NoCall
    /\ EnumeratorIdle

NextSigint ==
    \/ Sigint
    \/ MainYieldEmptyDirectory
    \/ MainCreateTask
    \/ MainAwaitFirst
    \/ MainResumeFirst
    \/ MainAwaitAll
    \/ MainResumeAll
    \/ ProcessExit
    \/ \E c \in CandidateIds : TaskStart(c)
    \/ \E c \in CandidateIds : TaskResume(c)
    \/ \E c \in CandidateIds : ThLoad(c)
    \/ \E c \in CandidateIds : ThLoadFails(c)
    \/ \E c \in CandidateIds : ThBeforeRequestDone(c)
    \/ \E c \in CandidateIds, response \in SigintOutputs : ThGenerate(c, response)
    \/ \E c \in CandidateIds : ThGenerateRateLimited(c)
    \/ \E c \in CandidateIds : ThGenerateFails(c)
    \/ \E c \in CandidateIds : ThRateLimited(c)
    \/ \E c \in CandidateIds : ThRename(c)
    \/ \E c \in Callers : CoEnqueue(c)
    \/ \E c \in Callers : BeforeRequestEnter(c)
    \/ \E c \in Callers : BeforeRequestWakeBackoff(c)
    \/ \E c \in Callers : BeforeRequestWakeInterval(c)
    \/ \E c \in Callers : OnSuccess(c)
    \/ \E c \in Callers : OnRateLimit(c)
    \/ Tick

SpecSigint == InitSigint /\ [][NextSigint]_vars

(***************************************************************************)
(* The run when the model's answer may be too long for a file name, over   *)
(* two candidates.                                                         *)
(***************************************************************************)
\* bounds of the model
LongLen == 256

\* an answer of LongLen letters
LongText == [i \in 1..LongLen |-> "a"]
LongOutputs == {<<"e">>, LongText}

InitLong ==
    /\ clock = StartTime
    /\ limiter = NewLimiter
    /\ lock = NewLock
    /\ co = [c \in CandidateIds |-> IdleCo]
    /\ running = "main"
    /\ error_streak = 0
    /\ options \in [dry_run : BOOLEAN, jobs : 1..MaxJobs,
                    rename_options : {[add_dates |-> TRUE, allow_spaces |-> None, case_style |-> None]}]
    /\ os_name = "posix"
    /\ fs = InitialFs
    /\ files = <<1, 0, 2>>
    /\ main = NewMain
    /\ task = [c \in CandidateIds |-> NoTask]
    /\ th = [c \in CandidateIds |-> NoThread]
    /\ task_semaphore = options.jobs
    /\ is_cancelled = FALSE
    /\ sigint_flag = FALSE
    /\ exit_status = {}
    /\ call = NoCall
    /\ EnumeratorIdle

NextLong ==
    \/ MainYieldEmptyDirectory
    \/ MainCreateTask
    \/ MainAwaitFirst
    \/ MainResumeFirst
    \/ MainAwaitAll
    \/ MainResumeAll
    \/ ProcessExit
    \/ \E c \in CandidateIds : TaskStart(c)
    \/ \E c \in CandidateIds : TaskResume(c)
    \/ \E c \in CandidateIds : ThLoad(c)
    \/ \E c \in CandidateIds : ThLoadFails(c)
    \/ \E c \in CandidateIds : ThBeforeRequestDone(c)
    \/ \E c \in CandidateIds, response \in LongOutputs : ThGenerate(c, response)
    \/ \E c \in CandidateIds : ThGenerateRateLimited(c)
    \/ \E c \in CandidateIds : ThGenerateFails(c)
    \/ \E c \in CandidateIds : ThRateLimited(c)
    \/ \E c \in CandidateIds : ThRename(c)
    \/ \E c \in Callers : CoEnqueue(c)
    \/ \E c \in Callers : BeforeRequestEnter(c)
    \/ \E c \in Callers : BeforeRequestWakeBackoff(c)
    \/ \E c \in Callers : BeforeRequestWakeInterval(c)
    \/ \E c \in Callers : OnSuccess(c)
    \/ \E c \in Callers : OnRateLimit(c)
    \/ Tick

SpecLong == InitLong /\ [][NextLong]_vars

(***************************************************************************)
(* list_files.py: iter_image_files, an asynchronous generator that calls   *)
(* itself for the subdirectories of a directory.  A path is the sequence   *)
(* of its names; walk holds one frame per generator, the innermost last.   *)
(* A value the innermost generator yields passes through every generator   *)
(* around it (lines 42-46) before the consumer receives it.                *)
(***************************************************************************)
\* the characters in the order of their code points
CodePoints ==
    <<" ", "!", "-", ".", "0", "1", "2", "3", "4", "5", "6", "7", "8", "9", "A", "B",
      "C", "D", "E", "F", "G", "H", "I", "J", "K", "L", "M", "N", "O", "P", "Q", "R",
      "S", "T", "U", "V", "W", "X", "Y", "Z", "_", "a", "b", "c", "d", "e", "f", "g",
      "h", "i", "j", "k", "l", "m", "n", "o", "p", "q", "r", "s", "t", "u", "v", "w",
      "x", "y", "z", "Eacute", "eacute", "acute", "emdash">>
\* a < b for str
StrLess(a, b) ==
    \E k \in 1..(Min(Len(a), Len(b)) + 1) :
        /\ \A i \in 1..(k - 1) : a[i] = b[i]
        /\ k <= Len(b)
        /\ k <= Len(a) => IndexOf(CodePoints, a[k]) < IndexOf(CodePoints, b[k])
\* Path.name
Name(path) == path[Len(path)]
\* the paths of one directory, the greatest name first
RECURSIVE Descending(_)
Descending(paths) ==
    IF paths = {} THEN <<>>
    ELSE LET last == CHOOSE p \in paths : \A r \in paths \ {p} : StrLess(Name(r), Name(p))
         IN <<last>> \o Descending(paths \ {last})
\* list.sort() of the paths of one directory
RECURSIVE Sorted(_)
Sorted(paths) ==
    IF paths = {} THEN <<>>
    ELSE LET first == CHOOSE p \in paths : \A r \in paths \ {p} : StrLess(Name(p), Name(r))
         IN <<first>> \o Sorted(paths \ {first})
\* Path.iterdir()
Children(dir) == {p \in DOMAIN tree : Len(p) = Len(dir) + 1 /\ SubSeq(p, 1, Len(dir)) = dir}
\* Path.is_dir(); a directory is one that can be listed ("dir") or one whose listing is
\* denied to the process ("unreadable")
IsDir(path) == path \in DOMAIN tree /\ tree[path] \in {"dir", "unreadable"}

AnyFile(path) == TRUE
\* is_image_file, of a path
IsImagePath(path) == is_image_file(Name(path))
AllEligible(path) == TRUE
\* lines 37 and 54: options.process_all or needs_rename(f.name)
Eligible(path) == options.process_all \/ needs_rename(Name(path))

\* what the generator yields: a path, or an EmptyDirectoryError (lines 11-17)
YieldedPath(path) == [error |-> FALSE, path |-> path, ignored_files |-> <<>>]
EmptyDirectoryError(path, ignored_files) == [error |-> TRUE, path |-> path, ignored_files |-> ignored_files]

\* a generator at its start: its arguments, where it is (index: in `for file in files`),
\* its locals
NewFrame(paths, warn_on_invalid_files) ==
    [files |-> paths, warn_on_invalid_files |-> warn_on_invalid_files, pc |-> "next", index |-> 1,
     image_files |-> <<>>, files_to_process |-> <<>>, child_dirs |-> <<>>, found_image_file |-> FALSE]
\* the innermost generator, and the stack with that generator in state f
Top == walk[Len(walk)]
WithTop(f) == [walk EXCEPT ![Len(walk)] = f]
\* lines 32, 49, 53, 55 and 56: on to the next element of files
Advanced(f) == [f EXCEPT !.index = @ + 1, !.pc = "next"]
\* file, the element of files the innermost generator is at
File == Top.files[Top.index]
\* lines 45-46 in every generator around the innermost: a path came from a child
FoundAround(w) == [i \in 1..Len(w) |-> IF i < Len(w) THEN [w[i] EXCEPT !.found_image_file = TRUE] ELSE w[i]]
AtNext == walk # <<>> /\ Top.pc = "next" /\ Top.index <= Len(Top.files)

\* the part of the state the enumeration leaves alone
enumerator_frame == <<limiter_side, running, options, os_name, call, fs, files, main, task, th, task_semaphore, signals, tree>>

\* lines 30-32
IterNotFound ==
    /\ AtNext /\ File \notin DOMAIN tree
    /\ warned' = Append(warned, File)
    /\ walk' = WithTop(Advanced(Top))
    /\ UNCHANGED <<enumerator_frame, yielded>>

\* lines 33-39: list the directory
IterListDirectory ==
    /\ AtNext /\ IsDir(File) /\ tree[File] = "dir"
    /\ LET all_files == Sorted(Children(File))
           image_files == SelectSeq(all_files, IsImagePath)
           files_to_process == SelectSeq(image_files, Eligible)
       IN walk' = WithTop([Top EXCEPT !.pc = "files",
                                      !.image_files = image_files,
                                      !.files_to_process = files_to_process,
                                      !.child_dirs = SelectSeq(all_files, IsDir),
                                      !.found_image_file = files_to_process # <<>>])
    /\ UNCHANGED <<enumerator_frame, yielded, warned>>

\* line 34: file.iterdir() raises PermissionError; no generator catches it, so every
\* generator ends with it and the consumer receives it
IterListFails ==
    /\ AtNext /\ IsDir(File) /\ tree[File] = "unreadable"
    /\ walk' = <<[walk[1] EXCEPT !.pc = "raised"]>>
    /\ UNCHANGED <<enumerator_frame, yielded, warned>>

\* lines 40-41
IterYieldFile ==
    /\ walk # <<>> /\ Top.pc = "files" /\ Top.files_to_process # <<>>
    /\ yielded' = Append(yielded, YieldedPath(Head(Top.files_to_process)))
    /\ walk' = FoundAround(WithTop([Top EXCEPT !.files_to_process = Tail(@)]))
    /\ UNCHANGED <<enumerator_frame, warned>>

\* line 42: the generator of the subdirectories starts
IterDescend ==
    /\ walk # <<>> /\ Top.pc = "files" /\ Top.files_to_process = <<>>
    /\ walk' = Append(WithTop([Top EXCEPT !.pc = "children"]), NewFrame(Top.child_dirs, FALSE))
    /\ UNCHANGED <<enumerator_frame, yielded, warned>>

\* line 29: files is exhausted and the generator is over
IterReturn ==
    /\ walk # <<>> /\ Top.pc = "next" /\ Top.index > Len(Top.files)
    /\ walk' = IF Len(walk) = 1 THEN WithTop([Top EXCEPT !.pc = "done"])
               ELSE [i \in 1..(Len(walk) - 1) |->
                        IF i = Len(walk) - 1 THEN [walk[i] EXCEPT !.pc = "after"] ELSE walk[i]]
    /\ UNCHANGED <<enumerator_frame, yielded, warned>>

\* lines 47-49: nothing was found; the generator around this one drops the
\* EmptyDirectoryError (lines 43-44), the consumer receives it
IterEmptyDirectory ==
    /\ walk # <<>> /\ Top.pc = "after" /\ ~Top.found_image_file
    /\ yielded' = IF Len(walk) = 1
                  THEN Append(yielded, EmptyDirectoryError(File, Top.image_files))
                  ELSE yielded
    /\ walk' = WithTop(Advanced(Top))
    /\ UNCHANGED <<enumerator_frame, warned>>

\* lines 47 and 49
IterDirectoryDone ==
    /\ walk # <<>> /\ Top.pc = "after" /\ Top.found_image_file
    /\ walk' = WithTop(Advanced(Top))
    /\ UNCHANGED <<enumerator_frame, yielded, warned>>

\* lines 50-53
IterNotImage ==
    /\ AtNext /\ File \in DOMAIN tree /\ ~IsDir(File)
    /\ ~IsImagePath(File)
    /\ warned' = IF Top.warn_on_invalid_files THEN Append(warned, File) ELSE warned
    /\ walk' = WithTop(Advanced(Top))
    /\ UNCHANGED <<enumerator_frame, yielded>>

\* lines 54-55
IterSkip ==
    /\ AtNext /\ File \in DOMAIN tree /\ ~IsDir(File)
    /\ IsImagePath(File)
    /\ ~Eligible(File)
    /\ walk' = WithTop(Advanced(Top))
    /\ UNCHANGED <<enumerator_frame, yielded, warned>>

\* line 56
IterYieldInput ==
    /\ AtNext /\ File \in DOMAIN tree /\ ~IsDir(File)
    /\ IsImagePath(File)
    /\ Eligible(File)
    /\ yielded' = Append(yielded, YieldedPath(File))
    /\ walk' = FoundAround(WithTop(Advanced(Top)))
    /\ UNCHANGED <<enumerator_frame, warned>>

\* every entry a tree may have: a directory d with image files that need a rename or not,
\* another file, a directory named like an image, a directory that cannot be listed,
\* a subdirectory and a dot-directory
Entries ==
    (<<<<"d">>>> :> "dir") @@
    (<<<<"d">>, <<"I", "M", "G", "_", "1", ".", "j", "p", "g">>>> :> "file") @@
    (<<<<"d">>, <<"a", ".", "j", "p", "g">>>> :> "file") @@
    (<<<<"d">>, <<"e", ".", "P", "N", "G">>>> :> "file") @@
    (<<<<"d">>, <<"n", ".", "t", "x", "t">>>> :> "file") @@
    (<<<<"d">>, <<"g", ".", "j", "p", "g">>>> :> "dir") @@
    (<<<<"d">>, <<"k">>>> :> "unreadable") @@
    (<<<<"d">>, <<"s">>>> :> "dir") @@
    (<<<<"d">>, <<"s">>, <<"u", "n", "t", "i", "t", "l", "e", "d", " ", "2", ".", "p", "n", "g">>>> :> "file") @@
    (<<<<"d">>, <<".", "h">>>> :> "dir") @@
    (<<<<"d">>, <<".", "h">>, <<"I", "M", "G", "_", "3", ".", "j", "p", "g">>>> :> "file")
\* the trees: d and any of the other entries, none without its directory
Trees ==
    {[p \in paths |-> Entries[p]] :
        paths \in {ps \in SUBSET DOMAIN Entries :
                     /\ <<<<"d">>>> \in ps
                     /\ \A p \in ps : Len(p) > 1 => SubSeq(p, 1, Len(p) - 1) \in ps}}
\* the input paths of a run
InputLists ==
    { <<<<<<"d">>>>>>,
      <<<<<<"x", ".", "j", "p", "g">>>>, <<<<"d">>, <<"n", ".", "t", "x", "t">>>>, <<<<"d">>, <<"a", ".", "j", "p", "g">>>>, <<<<"d">>, <<"I", "M", "G", "_", "1", ".", "j", "p", "g">>>>>>,
      <<<<<<"d">>, <<"s">>>>, <<<<"d">>>>>>,
      <<<<<<"d">>, <<"k">>>>, <<<<"d">>, <<"I", "M", "G", "_", "1", ".", "j", "p", "g">>>>>> }

InitEnum ==
    /\ clock = StartTime
    /\ limiter = NewLimiter
    /\ lock = NewLock
    /\ co = [c \in CandidateIds |-> IdleCo]
    /\ running = "main"
    /\ error_streak = 0
    /\ options \in [dry_run : {TRUE}, process_all : BOOLEAN, jobs : {1},
                    rename_options : {[add_dates |-> TRUE, allow_spaces |-> None, case_style |-> None]}]
    /\ os_name = "posix"
    /\ fs = InitialFs
    /\ files = <<>>
    /\ main = NewMain
    /\ task = [c \in CandidateIds |-> NoTask]
    /\ th = [c \in CandidateIds |-> NoThread]
    /\ task_semaphore = options.jobs
    /\ is_cancelled = FALSE
    /\ sigint_flag = FALSE
    /\ exit_status = {}
    /\ call = NoCall
    /\ tree \in Trees
    /\ \E input \in InputLists : walk = <<NewFrame(input, TRUE)>>
    /\ yielded = <<>>
    /\ warned = <<>>

NextEnum ==
    \/ IterNotFound
    \/ IterListDirectory
    \/ IterListFails
    \/ IterYieldFile
    \/ IterDescend
    \/ IterReturn
    \/ IterEmptyDirectory
    \/ IterDirectoryDone
    \/ IterNotImage
    \/ IterSkip
    \/ IterYieldInput

SpecEnum == InitEnum /\ [][NextEnum]_vars

(***************************************************************************)
(* Functions on their own: sanitize_filename is called on a text, and then *)
(* on its own result, under one policy; get_filename_date on a file name;  *)
(* the naming steps of process_image on a name, its metadata and a         *)
(* response.  Nothing of the pipeline runs.                                *)
(***************************************************************************)
PipelineIdle ==
    /\ clock = StartTime
    /\ limiter = NewLimiter
    /\ lock = NewLock
    /\ co = [c \in CandidateIds |-> IdleCo]
    /\ running = "main"
    /\ error_streak = 0
    /\ options = [dry_run |-> TRUE, jobs |-> 1,
                  rename_options |-> [add_dates |-> TRUE, allow_spaces |-> None, case_style |-> None]]
    /\ os_name = "posix"
    /\ fs = InitialFs
    /\ files = <<>>
    /\ main = NewMain
    /\ task = [c \in CandidateIds |-> NoTask]
    /\ th = [c \in CandidateIds |-> NoThread]
    /\ task_semaphore = options.jobs
    /\ is_cancelled = FALSE
    /\ sigint_flag = FALSE
    /\ exit_status = {}
    /\ EnumeratorIdle
\* the part of the state a call of a function of utils.py leaves alone
utils_frame == <<limiter_side, running, options, os_name, fs, files, main, task, th, task_semaphore, signals, enumerator>>

\* the longest text given to sanitize_filename
MaxTextLen == 3
\* its characters: a space, a hyphen, a lower-case and an upper-case letter, a punctuation
\* mark, a combining accent and a dash that is not ASCII
TextChars == {" ", "-", "a", "E", "!", "acute", "emdash"}
Texts == UNION {[1..n -> TextChars] : n \in 0..MaxTextLen}
\* the keyword arguments of sanitize_filename, lines 70-74
Policies ==
    [allow_accents : BOOLEAN, allow_punctuation : BOOLEAN, allow_spaces : BOOLEAN,
     allow_uppercase : BOOLEAN, require_ascii : BOOLEAN]
\* sanitize_filename(text, **P)
Sanitize(text, P) ==
    sanitize_filename(text, P.allow_accents, P.allow_punctuation, P.allow_spaces,
                      P.allow_uppercase, P.require_ascii)

\* sanitize_filename(text, **policy) returns
SanitizeReturn ==
    /\ call.fn = "sanitize_filename" /\ call.pc = "called"
    /\ call' = [call EXCEPT !.pc = "returned", !.result = Sanitize(call.text, call.policy)]
    /\ UNCHANGED utils_frame

\* sanitize_filename(result, **policy) returns
SanitizeAgain ==
    /\ call.fn = "sanitize_filename" /\ call.pc = "returned"
    /\ call' = [call EXCEPT !.pc = "returned_again", !.again = Sanitize(call.result, call.policy)]
    /\ UNCHANGED utils_frame

\* int(text), for a text of decimal digits
RECURSIVE ToInt(_)
ToInt(text) ==
    IF text = <<>> THEN 0
    ELSE 10 * ToInt(SubSeq(text, 1, Len(text) - 1)) + (IndexOf(DigitChars, text[Len(text)]) - 1)
\* the two date_patterns of get_filename_date (lines 175 and 177): the offsets of the digits
\* after "20", of the hyphens, and of the groups year, month and day
DatePatterns ==
    << [digits |-> {2, 3, 5, 6, 8, 9}, hyphens |-> {4, 7}, length |-> 10,
        year |-> <<0, 3>>, month |-> <<5, 6>>, day |-> <<8, 9>>],
       [digits |-> {2, 3, 4, 5, 6, 7}, hyphens |-> {}, length |-> 8,
        year |-> <<0, 3>>, month |-> <<4, 5>>, day |-> <<6, 7>>] >>
\* the pattern matches text at position j
MatchesAt(pattern, text, j) ==
    /\ j + pattern.length - 1 <= Len(text)
    /\ text[j] = "2" /\ text[j + 1] = "0"
    /\ \A k \in pattern.digits : text[j + k] \in Digits
    /\ \A k \in pattern.hyphens : text[j + k] = "-"
\* re.search(pattern, text): the position of the leftmost match, or 0
Search(pattern, text) ==
    IF \E j \in 1..Len(text) : MatchesAt(pattern, text, j)
    THEN CHOOSE j \in 1..Len(text) :
            MatchesAt(pattern, text, j) /\ \A i \in 1..(j - 1) : ~MatchesAt(pattern, text, i)
    ELSE 0
\* the groups of a match at position j, as integers
Groups(pattern, text, j) ==
    << ToInt(SubSeq(text, j + pattern.year[1], j + pattern.year[2])),
       ToInt(SubSeq(text, j + pattern.month[1], j + pattern.month[2])),
       ToInt(SubSeq(text, j + pattern.day[1], j + pattern.day[2])) >>
\* datetime(year, month, day) does not raise ValueError
DaysInMonth(year, month) ==
    IF month = 2
    THEN (IF year % 4 = 0 /\ (year % 100 # 0 \/ year % 400 = 0) THEN 29 ELSE 28)
    ELSE IF month \in {4, 6, 9, 11} THEN 30 ELSE 31
ValidDate(date) ==
    /\ date[1] >= 1
    /\ date[2] \in 1..12
    /\ date[3] >= 1 /\ date[3] <= DaysInMonth(date[1], date[2])
\* lines 180-191: the patterns from the k-th on
RECURSIVE DateFromPatterns(_, _)
DateFromPatterns(filename, k) ==
    IF k > Len(DatePatterns) THEN NoDate
    ELSE LET match == Search(DatePatterns[k], filename)
         IN IF match # 0 /\ ValidDate(Groups(DatePatterns[k], filename, match))
            THEN Groups(DatePatterns[k], filename, match)
            ELSE DateFromPatterns(filename, k + 1)
get_filename_date(image_path) == DateFromPatterns(Stem(image_path), 1)

\* get_filename_date(image_path) returns
FilenameDateReturn ==
    /\ call.fn = "get_filename_date" /\ call.pc = "called"
    /\ call' = [call EXCEPT !.pc = "returned", !.result = get_filename_date(call.image_path)]
    /\ UNCHANGED utils_frame

\* the most date-like parts of a file name
MaxDates == 2
\* the parts: dates in either form that exist, dates that do not (month 13, 29 February
\* of 2023, day 00), a date of another century, and a word
NameParts ==
    { <<"2", "0", "2", "4", "-", "0", "1", "-", "0", "2">>,
      <<"2", "0", "2", "4", "-", "0", "2", "-", "2", "9">>,
      <<"2", "0", "2", "4", "-", "1", "3", "-", "0", "1">>,
      <<"2", "0", "2", "3", "-", "0", "2", "-", "2", "9">>,
      <<"2", "0", "2", "4", "-", "0", "3", "-", "0", "0">>,
      <<"2", "0", "2", "4", "0", "5", "0", "6">>,
      <<"2", "0", "2", "4", "1", "3", "0", "1">>,
      <<"2", "0", "2", "3", "0", "2", "2", "9">>,
      <<"1", "9", "9", "9", "-", "0", "1", "-", "0", "2">>,
      <<"p", "h", "o", "t", "o">> }
\* the parts joined by "_"
RECURSIVE Joined(_)
Joined(parts) ==
    IF Len(parts) = 1 THEN parts[1] ELSE parts[1] \o <<"_">> \o Joined(Tail(parts))
\* the file names: one to MaxDates parts, and the extension
DatedNames ==
    {Joined(parts) \o <<".", "j", "p", "g">> : parts \in UNION {[1..n -> NameParts] : n \in 1..MaxDates}}

\* process_image on its own, from the opened image to the new name: the original names
\* with a date in either form and without one
NamedImages ==
    { <<"I", "M", "G", "_", "1", ".", "j", "p", "g">>,
      <<"i", "m", "g", " ", "2", ".", "j", "p", "e", "g">>,
      <<"2", "0", "2", "4", "-", "0", "3", "-", "0", "4", " ", "a", ".", "j", "p", "g">>,
      <<"2", "0", "2", "4", "0", "5", "0", "6", "_", "a", ".", "j", "p", "g">> }
\* lines 154 and 165: exif_date
ImageDateRead ==
    /\ call.fn = "process_image" /\ call.pc = "called"
    /\ call' = [call EXCEPT !.pc = "generate",
                            !.exif_date = ExifDate(call.image_path, call.rename_options.add_dates, call.exif)]
    /\ UNCHANGED utils_frame
\* what the model may answer: the outputs of the runs, and one with two spaces
Responses == GenOutputs \cup {<<"a", " ", " ", "e">>}
\* lines 198-220: new_name, from the response of the model
ImageNamed ==
    /\ call.fn = "process_image" /\ call.pc = "generate"
    /\ \E response \in Responses :
          call' = [call EXCEPT !.pc = "returned", !.response = response,
                                  !.result = NewName(call.image_path, response, call.rename_options,
                                                     call.exif_date, call.exif)]
    /\ UNCHANGED utils_frame

InitUtils ==
    /\ PipelineIdle
    /\ \/ call \in [fn : {"sanitize_filename"}, text : Texts, policy : Policies, pc : {"called"},
                     result : {NoText}, again : {NoText}]
       \/ call \in [fn : {"get_filename_date"}, image_path : DatedNames, pc : {"called"},
                     result : {NoDate}]
       \/ call \in [fn : {"process_image"}, image_path : NamedImages, rename_options : RenameOptionsSet,
                     exif : ExifDates, pc : {"called"}, exif_date : {NoText}, response : {NoText},
                     result : {NoText}]

NextUtils ==
    \/ SanitizeReturn
    \/ SanitizeAgain
    \/ FilenameDateReturn
    \/ ImageDateRead
    \/ ImageNamed

SpecUtils == InitUtils /\ [][NextUtils]_vars

(***************************************************************************)
(* cli.py: the loop of main that asks for a name again when the name is    *)
(* too long (lines 222-250), for one image.  A prompt is a sequence of     *)
(* pieces of text; a generated name is given by its length.                *)
(***************************************************************************)
\* the most models and prompts of a run
MaxModels == 2
MaxPrompts == 2
\* the prompts the user may give; without one, prompt is (DEFAULT_PROMPT,) (lines 172-173)
PromptTuples ==
    {<<<<"DEFAULT_PROMPT">>>>} \cup
    {[i \in 1..n |-> <<"prompt", i>>] : n \in 1..MaxPrompts}
\* line 228: "Keep it very brief. " + current_prompt
Brief == <<"Keep it very brief. ">>
\* the lengths of the names the generator returns, of the date prefix "%Y-%m-%d-" (220)
\* and of the suffix
NameLengths == {MAX_FILENAME_LENGTH - 244, MAX_FILENAME_LENGTH - 4, MAX_FILENAME_LENGTH - 3, MAX_FILENAME_LENGTH}
DatePrefixLengths == {0, Len(StrfDate(<<2024, 1, 2>>) \o <<"-">>)}
SuffixLength == Len(Suffix(Candidates[1]))

\* lines 224-231: an attempt starts
AttemptStart ==
    /\ call.fn = "main" /\ call.pc = "for_attempt"
    /\ call.attempt < MAX_RETRIES
    /\ call' = [call EXCEPT !.pc = "generate",
                            !.current_prompt = IF call.attempt > 0 THEN Brief \o call.prompt[1]
                                               ELSE call.prompt[1],
                            !.results = <<>>,
                            !.model = 1,
                            !.p = 1]
    /\ UNCHANGED utils_frame

\* lines 232-243: generate_filename(model_obj, str(img_path), p), and what follows from
\* the length of the full name
GenerateFilename ==
    /\ call.fn = "main" /\ call.pc = "generate"
    /\ \E new_name \in NameLengths :
          LET full_name == call.date_prefix + new_name + SuffixLength
              asked == Append(call.asked, [attempt |-> call.attempt, model |-> call.model,
                                           p |-> call.p, prompt |-> call.prompt[call.p]])
          IN call' = IF full_name <= MAX_FILENAME_LENGTH
                     THEN [call EXCEPT !.pc = "named", !.asked = asked, !.success = TRUE,
                                       !.results = Append(@, [model |-> call.model, p |-> call.p,
                                                              full_name |-> full_name])]
                     ELSE IF call.p < Len(call.prompt)
                     THEN [call EXCEPT !.asked = asked, !.p = @ + 1]
                     ELSE IF call.model < call.models
                     THEN [call EXCEPT !.asked = asked, !.model = @ + 1, !.p = 1]
                     ELSE [call EXCEPT !.asked = asked, !.attempt = @ + 1, !.pc = "for_attempt"]
    /\ UNCHANGED utils_frame

\* lines 245-250: every attempt gave a name that is too long; the file is skipped
AttemptsExhausted ==
    /\ call.fn = "main" /\ call.pc = "for_attempt"
    /\ call.attempt >= MAX_RETRIES
    /\ call' = [call EXCEPT !.pc = "skipped"]
    /\ UNCHANGED utils_frame

InitRetry ==
    /\ PipelineIdle
    /\ call \in [fn : {"main"}, models : 1..MaxModels, prompt : PromptTuples,
                  date_prefix : DatePrefixLengths, pc : {"for_attempt"}, attempt : {0},
                  current_prompt : {NoText}, results : {<<>>}, model : {1}, p : {1},
                  success : {FALSE}, asked : {<<>>}]

NextRetry ==
    \/ AttemptStart
    \/ GenerateFilename
    \/ AttemptsExhausted

SpecRetry == InitRetry /\ [][NextRetry]_vars

(***************************************************************************)
(* The scanner thread and the loop that takes its results, of main in      *)
(* cli.py (lines 80-126 and 183-292), for one input path.  The queue holds *)
(* the positions of the image files in the order of the scan, and 0 for    *)
(* the sentinel None.  The body of the loop (lines 206-280) is one step.   *)
(***************************************************************************)
MaxScan == 3
\* the names of the image files a scan may find
ScanNames == {Candidates[1], <<"a", ".", "j", "p", "g">>}
\* the sentinel (line 126)
Sentinel == 0

\* lines 89-92 and 106-111: the next image file is put on the queue.  Only the scanner
\* sets done, at its end, so the early returns of lines 107-108 and 116-117 are not taken
ScanPut ==
    /\ call.fn = "scan" /\ call.scanner = "scan_dir"
    /\ call.next <= Len(call.items)
    /\ ~call.done
    /\ call' = [call EXCEPT !.queue = Append(@, call.next), !.next = @ + 1]
    /\ UNCHANGED utils_frame
\* lines 93-94 and 122-125: nothing is left to scan; done.set()
ScanDone ==
    /\ call.fn = "scan"
    /\ call.scanner = "scan_dir" /\ call.next > Len(call.items)
    /\ call' = [call EXCEPT !.scanner = "sentinel", !.done = TRUE]
    /\ UNCHANGED utils_frame
\* line 126: queue.put(None), and the thread ends
ScanSentinel ==
    /\ call.fn = "scan" /\ call.scanner = "sentinel"
    /\ call' = [call EXCEPT !.scanner = "ended", !.queue = Append(@, Sentinel)]
    /\ UNCHANGED utils_frame
LoopTestDoneOnly ==
    /\ call.fn = "scan" /\ call.loop = "while"
    /\ call' = [call EXCEPT !.loop = IF call.done THEN "join" ELSE "get"]
    /\ UNCHANGED utils_frame
\* line 199: while not (done.is_set() and file_queue.empty())
LoopTest ==
    /\ call.fn = "scan" /\ call.loop = "while"
    /\ call' = [call EXCEPT !.loop = IF call.done /\ call.queue = <<>> THEN "join" ELSE "get"]
    /\ UNCHANGED utils_frame
\* lines 202-204: the sentinel is taken
LoopSentinel ==
    /\ call.fn = "scan" /\ call.loop = "get"
    /\ call.queue # <<>> /\ Head(call.queue) = Sentinel
    /\ call' = [call EXCEPT !.loop = "while", !.queue = Tail(@)]
    /\ UNCHANGED utils_frame
\* lines 202-212: a file is taken, and skipped for its name
LoopSkip ==
    /\ call.fn = "scan" /\ call.loop = "get"
    /\ call.queue # <<>> /\ Head(call.queue) # Sentinel
    /\ ~call.process_all /\ ~is_camera_filename(call.items[Head(call.queue)])
    /\ call' = [call EXCEPT !.loop = "while", !.queue = Tail(@),
                            !.taken = Append(@, Head(call.queue)), !.skipped_files = TRUE]
    /\ UNCHANGED utils_frame
\* lines 202-280: a file is taken and processed
LoopProcess ==
    /\ call.fn = "scan" /\ call.loop = "get"
    /\ call.queue # <<>> /\ Head(call.queue) # Sentinel
    /\ call.process_all \/ is_camera_filename(call.items[Head(call.queue)])
    /\ call' = [call EXCEPT !.loop = "while", !.queue = Tail(@),
                            !.taken = Append(@, Head(call.queue)),
                            !.processed = Append(@, Head(call.queue)),
                            !.processed_files = TRUE]
    /\ UNCHANGED utils_frame
\* lines 202 and 282-289: nothing came within the second; queue.Empty
LoopTimeout ==
    /\ call.fn = "scan" /\ call.loop = "get"
    /\ call.queue = <<>>
    /\ call' = [call EXCEPT !.loop = "while"]
    /\ UNCHANGED utils_frame
\* line 292: scanner.join()
LoopJoin ==
    /\ call.fn = "scan" /\ call.loop = "join"
    /\ call.scanner = "ended"
    /\ call' = [call EXCEPT !.loop = "joined"]
    /\ UNCHANGED utils_frame

InitScan ==
    /\ PipelineIdle
    /\ call \in [fn : {"scan"}, items : UNION {[1..n -> ScanNames] : n \in 0..MaxScan},
                  process_all : BOOLEAN, scanner : {"scan_dir"}, next : {1}, done : {FALSE},
                  queue : {<<>>}, loop : {"while"}, taken : {<<>>}, processed : {<<>>},
                  skipped_files : {FALSE}, processed_files : {FALSE}]

NextScan ==
    \/ ScanPut
    \/ ScanDone
    \/ ScanSentinel
    \/ LoopTest
    \/ LoopSentinel
    \/ LoopSkip
    \/ LoopProcess
    \/ LoopTimeout
    \/ LoopJoin

SpecScan == InitScan /\ [][NextScan]_vars

(***************************************************************************)
(* Properties of the rate limiter.                                         *)
(***************************************************************************)
\* caller c is suspended inside the `async with self._lock` block
Inside(c) == co[c].pc \in {"sleep_backoff", "sleep_interval"}
\* this step completes c's call of op
ReturnsFrom(c, op) == co[c].op = op /\ co[c].pc # "returned" /\ co'[c].pc = "returned"
\* this step is c's call of before_request taking the lock and reading the time (line 23)
EntersBeforeRequest(c) ==
    /\ co[c].op = "before_request"
    /\ co[c].pc \in {"scheduled", "lock_wait"}
    /\ co'[c].pc \notin {"scheduled", "lock_wait"}
\* a backoff window is active: the last recorded error is less than the backoff ago
WindowActive ==
    limiter.last_error_time > 0 /\ clock - limiter.last_error_time < limiter.current_backoff
\* the backoff after n rate-limit errors in succession, counted from the floor
BackoffAfter(n) == Min(INITIAL_BACKOFF * 2^n, MAX_BACKOFF)

\* C4: the three operations run in one mutual-exclusion section: at most one caller is
\* inside the wait/update section, it is the holder of the lock, and while it is inside
\* no other call reads or writes the backoff state (the state does not change under it).
C4_OneInside ==
    /\ \A c, d \in Callers : Inside(c) /\ Inside(d) => c = d
    /\ \A c \in Callers : Inside(c) <=> lock.holder = c
C4_NoInterleaving ==
    \A c \in Callers : Inside(c) /\ Inside(c)' => limiter' = limiter
C4_MutualExclusion == []C4_OneInside /\ [][C4_NoInterleaving]_vars
\* one caller sleeps out a backoff window inside the section while another call queues
C4_Witness ==
    \E c, d \in Callers :
        co[c].pc = "sleep_backoff" /\ co[d].pc = "lock_wait" /\ co[d].op = "on_rate_limit"

\* C5: from the floor, rate-limit errors in succession return floor*2, then floor*4, and
\* so on doubling, each capped at 60 s; any on_success leaves the backoff at the floor
\* (1 s) and the error timestamp cleared.
C5_Step ==
    \A c \in Callers :
        /\ ReturnsFrom(c, "on_rate_limit") =>
               /\ co'[c].ret = BackoffAfter(error_streak')
               /\ limiter'.current_backoff = co'[c].ret
        /\ ReturnsFrom(c, "on_success") =>
               /\ limiter'.current_backoff = INITIAL_BACKOFF
               /\ limiter'.last_error_time = 0
C5_BackoffSequence == [][C5_Step]_vars
\* the second error in succession has returned floor*4
C5_Witness ==
    \E c \in Callers :
        /\ co[c].op = "on_rate_limit" /\ co[c].pc = "returned"
        /\ error_streak = 2 /\ co[c].ret = 4 * INITIAL_BACKOFF

\* C6: the backoff always lies between the floor (1 s) and the maximum (60 s); it changes
\* only by a reset to the floor in on_success or by doubling, capped, in on_rate_limit.
C6_InRange ==
    INITIAL_BACKOFF <= limiter.current_backoff /\ limiter.current_backoff <= MAX_BACKOFF
C6_Step ==
    limiter'.current_backoff # limiter.current_backoff =>
        \/ /\ \E c \in Callers : ReturnsFrom(c, "on_success")
           /\ limiter'.current_backoff = INITIAL_BACKOFF
        \/ /\ \E c \in Callers : ReturnsFrom(c, "on_rate_limit")
           /\ limiter'.current_backoff = Min(2 * limiter.current_backoff, MAX_BACKOFF)
C6_BackoffBounded == []C6_InRange /\ [][C6_Step]_vars
\* the cap was hit: more errors in succession than doublings fit under the maximum
C6_Witness ==
    /\ limiter.current_backoff = MAX_BACKOFF
    /\ INITIAL_BACKOFF * 2^(error_streak - 1) >= MAX_BACKOFF

\* C7: every return of before_request records a request time at least the minimum
\* interval (0.1 s) after the previously recorded one, with or without a backoff window.
C7_Step ==
    \A c \in Callers :
        ReturnsFrom(c, "before_request") /\ limiter.last_request_time # 0 =>
            limiter'.last_request_time - limiter.last_request_time >= min_request_interval
C7_RequestSpacing == [][C7_Step]_vars
\* a call that waited out a backoff window and then the interval has returned
C7_Witness ==
    \E c \in Callers :
        /\ co[c].op = "before_request" /\ co[c].pc = "returned"
        /\ co[c].slept = {"backoff", "interval"}

\* C8: a call of before_request that finds a backoff window active when it reads the
\* time sleeps, and does not return before the end of that window.
C8_Step ==
    \A c \in Callers :
        /\ EntersBeforeRequest(c) /\ WindowActive =>
               /\ co'[c].pc = "sleep_backoff"
               /\ co'[c].window_end = limiter.last_error_time + limiter.current_backoff
        /\ ReturnsFrom(c, "before_request") /\ co[c].window_end # 0 =>
               clock >= co[c].window_end
C8_WaitsOutBackoff == [][C8_Step]_vars
\* a call that entered in the middle of a window has returned
C8_Witness ==
    \E c \in Callers :
        /\ co[c].op = "before_request" /\ co[c].pc = "returned"
        /\ "backoff" \in co[c].slept
        /\ limiter.last_error_time > 0
        /\ limiter.last_request_time >= limiter.last_error_time + limiter.current_backoff


(***************************************************************************)
(* Properties of the rename pipeline.                                      *)
(***************************************************************************)
\* the candidates admitted (their task exists) that have not reached a terminal state
InFlight == {c \in CandidateIds : task[c].pc \in {"created", "to_thread"}}
\* candidate c was processed to the end and its new name returned
Succeeded(c) == task[c].pc = "done" /\ task[c].outcome = "returned"

\* C1: in a real run no step replaces a file that exists: a path that holds a file before
\* and after a step holds the same file.
C1_NeverOverwrites == [][\A n \in DOMAIN fs \cap DOMAIN fs' : fs'[n] = fs[n]]_vars

\* C2: in a real run the file of a candidate that was renamed is never replaced by the
\* file of another candidate: its image is still in the directory.
C2_RenamedFileSurvives ==
    \A c \in CandidateIds :
        ~options.dry_run /\ Succeeded(c) => \E n \in DOMAIN fs : fs[n] = c

\* C3: the candidates admitted and not yet terminal never outnumber options.jobs, and so
\* never the slots of the semaphore; a candidate is admitted only while a slot is free,
\* and the number in flight drops only when a candidate reaches a terminal state.
C3_Bounded ==
    /\ Cardinality(InFlight) <= options.jobs
    /\ task_semaphore >= 0
    /\ task_semaphore = options.jobs - Cardinality({c \in CandidateIds : task[c].pc = "to_thread"})
C3_Step ==
    /\ \A c \in CandidateIds :
           task[c].pc = "none" /\ task'[c].pc # "none" => Cardinality(InFlight) < options.jobs
    /\ Cardinality(InFlight') < Cardinality(InFlight) =>
           \E c \in CandidateIds : task[c].pc # "done" /\ task'[c].pc = "done"
C3_BoundedConcurrency == []C3_Bounded /\ [][C3_Step]_vars
\* with one job, the second candidate runs after the first has reached its terminal state
C3_Witness ==
    /\ options.jobs = 1
    /\ \E c, d \in CandidateIds : task[c].pc = "done" /\ task[d].pc = "to_thread"

C10_Step ==
    \A c \in CandidateIds :
        /\ th[c].pc = "on_success" /\ th'[c].pc = "returned" =>
               /\ \A exif \in ExifDates :
                      th'[c].new_name =
                          NewName(Candidates[c], th[c].response, options.rename_options,
                                  ExifDate(Candidates[c], options.rename_options.add_dates, exif), exif)
               /\ ~options.dry_run =>
                      /\ th'[c].new_name \in DOMAIN fs'
                      /\ fs'[th'[c].new_name] = fs[Candidates[c]]
        /\ task[c].pc = "to_thread" /\ task'[c].pc = "done" /\ th[c].pc = "returned" =>
               task'[c].result = th[c].new_name
C10_SameNameInBothModes == [][C10_Step]_vars
\* a real run has renamed a candidate to the name it reports
C10_Witness ==
    \E c \in CandidateIds :
        /\ ~options.dry_run /\ Succeeded(c)
        /\ Candidates[c] \notin DOMAIN fs
        /\ task[c].result \in DOMAIN fs /\ fs[task[c].result] = c

(***************************************************************************)
(* Properties of cancellation.                                             *)
(***************************************************************************)
\* the interrupt signal has been delivered: sigint_handler has run at least once
Interrupted == sigint_flag
\* candidate c has not been admitted: no thread has been started for it
NotAdmitted(c) == task[c].pc \in {"none", "created"}

\* C11: after an interrupt signal has been delivered, a candidate that has not yet been
\* admitted does no work: it never gets to load its image (nor, therefore, to call the
\* rate limiter or the generator, or to rename)
C11_NoWorkAfterInterrupt ==
    [][\A c \in CandidateIds : Interrupted /\ NotAdmitted(c) => th'[c].pc = "none"]_vars

\* the run's handler is installed and the process has not exited
Draining == Interrupted /\ exit_status = {} /\ main.pc # "finished"
\* candidate c's thread is at work
ThreadAtWork(c) == th[c].pc \in {"load", "before_request", "generate", "on_success", "on_rate_limit"}
\* the handler runs and calls sys.exit(1)
ForcedExit == Sigint /\ exit_status' = {1} /\ running' = "exited"

\* C12: while the first cancellation drains, a second interrupt exits the process with
\* sys.exit(1) whatever work is in flight
C12_SecondExits == Draining => ENABLED ForcedExit
\* C12: the process is never exited by the first interrupt: sys.exit(1) is called only
\* when an earlier interrupt has been handled
C12_FirstNeverExits == exit_status = {} /\ exit_status' = {1} => Interrupted
ReportedSuccess == {c \in CandidateIds : task[c].pc = "done" /\ task[c].outcome = "returned"}
ReportedFailure == {c \in CandidateIds : task[c].pc = "done" /\ task[c].outcome = "raised"}

\* C13: a candidate whose rename completed after the interrupt had been handled is
\* reported as a success, with its new file name
C13_Reported ==
    \A c \in CandidateIds :
        th[c].late /\ task[c].pc = "to_thread" /\ task'[c].pc = "done"
            => task'[c].outcome = "returned" /\ task'[c].result = th[c].new_name /\ task'[c].late
\* C13: and, once the run is over, it has been counted as successful, not as failed
C13_Counted ==
    main.pc = "finished" =>
        /\ \A c \in CandidateIds : task[c].late => c \in ReportedSuccess
        /\ main.successful = Cardinality(ReportedSuccess)
        /\ main.failed = Cardinality(ReportedFailure)
\* C13: both
C13_LateRenameIsSuccess == []C13_Counted /\ [][C13_Reported]_vars
\* a real run is over in which a rename completed after the interrupt
C13_Witness ==
    /\ main.pc = "finished" /\ ~options.dry_run
    /\ \E c \in CandidateIds : task[c].late /\ task[c].result \in DOMAIN fs

(***************************************************************************)
(* Properties of the pipeline's error handling.                            *)
(***************************************************************************)
\* C14: a composed file name longer than 255 characters is never used: no candidate
\* ends as a success under such a name (renamed to it, or reported as its new name)
C14_LongNameNeverUsed ==
    \A c \in CandidateIds : th[c].pc = "returned" => Len(th[c].new_name) <= MAX_FILENAME_LENGTH

\* the candidates the enumerator produces in the run
Produced == {InitialFiles[i] : i \in DOMAIN InitialFiles} \ {0}

\* something can run: the main coroutine, a task, a thread or a coroutine of the limiter
CanStep ==
    \/ running = "main" /\ main.pc = "iterate"
    \/ LoopIdle /\ main.pc = "wait_first" /\ DoneTasks # {}
    \/ LoopIdle /\ main.pc = "wait_all" /\ DoneTasks = main.active_tasks
    \/ main.pc = "finished" /\ exit_status = {}
    \/ \E c \in CandidateIds :
           \/ LoopIdle /\ task[c].pc = "created" /\ task_semaphore > 0
           \/ LoopIdle /\ task[c].pc = "to_thread" /\ th[c].pc \in {"returned", "raised"}
           \/ th[c].pc \in {"load", "generate"}
           \/ th[c].pc \in {"before_request", "on_success", "on_rate_limit"} /\ co[c].pc = "returned"
    \/ \E c \in Callers :
           \/ LoopIdle /\ co[c].pc = "scheduled" /\ ~(lock.holder = 0 /\ lock.waiters = <<>>)
           \/ LoopIdle /\ co[c].op \in Ops /\ LockAvailable(c)
           \/ LoopIdle /\ co[c].pc \in {"sleep_backoff", "sleep_interval"} /\ clock >= co[c].wake
\* a coroutine of the limiter sleeps until a later instant
Sleeping == \E c \in Callers : co[c].pc \in {"sleep_backoff", "sleep_interval"} /\ clock < co[c].wake

\* the run never comes to a halt before its summary, whatever has failed: something can
\* run, or a sleep of the limiter is going on
C15_NoStall == exit_status = {} => CanStep \/ Sleeping
\* at the summary every candidate produced is over and counted, as a success or a failure
C15_AllTerminal ==
    main.pc = "finished" =>
        /\ \A c \in Produced : task[c].pc = "done" /\ task[c].outcome \in {"returned", "raised"}
        /\ main.successful + main.failed = Cardinality(Produced)
        /\ main.failed = Cardinality({c \in Produced : task[c].outcome = "raised"})
\* a failure of one candidate takes no other candidate's task or thread away
C15_OthersKept ==
    \A c \in CandidateIds : th[c].pc # "raised" /\ th'[c].pc = "raised" =>
        \A d \in CandidateIds \ {c} : task'[d] = task[d] /\ th'[d] = th[d]
\* C15: no error of one candidate stops the others: the failure leaves the other tasks as
\* they are, the run never halts before its summary, and at the summary every candidate
\* the enumerator produced is in a terminal state
C15_ErrorsDoNotStopOthers == [](C15_NoStall /\ C15_AllTerminal) /\ [][C15_OthersKept]_vars

\* the summary of a run in which the first candidate failed and a later one was renamed
C15_Witness ==
    /\ main.pc = "finished"
    /\ task[1].outcome = "raised"
    /\ \E c \in Produced : task[c].outcome = "returned" /\ th[c].pc = "exited"

\* C16: a rate-limit error of the generator is retried: a candidate ends as a failure with
\* that error only after more than one request to the generator
C16_RateLimitRetried ==
    \A c \in CandidateIds :
        task[c].outcome = "raised" /\ th[c].error = "Resource has been exhausted" => th[c].requests > 1

\* C17: the exit status tells whether every candidate was renamed: it is 0 only after a
\* run without a failure, and a run without a failure ends with 0
C17_ExitStatusTellsFailure ==
    /\ exit_status = {0} => main.failed = 0
    /\ exit_status # {} /\ main.pc = "finished" /\ main.failed = 0 => exit_status = {0}

(***************************************************************************)
(* Properties of the enumeration.                                          *)
(***************************************************************************)
\* the input paths of the enumeration, and its end
Input == walk[1].files
EnumerationOver == walk[1].pc = "done"
\* the paths yielded so far, without the notices
YieldedPaths == {yielded[i].path : i \in {j \in 1..Len(yielded) : ~yielded[j].error}}
\* an image file, by its kind and its extension
ImageFile(p) == p \in DOMAIN tree /\ tree[p] = "file" /\ is_image_file(Name(p))
\* dir holds nothing but image files that need no rename
OnlyNamedImages(dir) == \A p \in Children(dir) : ImageFile(p) /\ ~needs_rename(Name(p))
\* the one input is such a directory, and process_all is off
C18_Case == Len(Input) = 1 /\ IsDir(Input[1]) /\ ~options.process_all /\ OnlyNamedImages(Input[1])

\* C18: enumerating a directory of image files that need no rename, without process_all,
\* yields no candidate and exactly one empty-directory notice, whose ignored files are
\* exactly the files of the directory
C18_OnlyNoticeForNamedImages ==
    C18_Case =>
        /\ YieldedPaths = {}
        /\ Len(yielded) <= 1
        /\ EnumerationOver =>
              /\ Len(yielded) = 1
              /\ yielded[1].path = Input[1]
              /\ {yielded[1].ignored_files[i] : i \in 1..Len(yielded[1].ignored_files)} = Children(Input[1])
              /\ Len(yielded[1].ignored_files) = Cardinality(Children(Input[1]))

\* the notice for a directory of two such files
C18_Witness ==
    /\ C18_Case /\ EnumerationOver
    /\ Cardinality(Children(Input[1])) = 2
    /\ Len(yielded) = 1 /\ Len(yielded[1].ignored_files) = 2

\* every image file directly under an input directory, or given as an input path
GivenImageFiles ==
    {p \in DOMAIN tree :
        /\ ImageFile(p)
        /\ \E k \in 1..Len(Input) : p = Input[k] \/ (IsDir(Input[k]) /\ p \in Children(Input[k]))}

C20_NoDescent ==
    \A p \in YieldedPaths :
        /\ \E k \in 1..Len(Input) : p = Input[k] \/ (Len(p) = Len(Input[k]) + 1 /\ SubSeq(p, 1, Len(Input[k])) = Input[k])
        /\ \A j \in 1..(Len(p) - 1) : p[j][1] # "."

\* C21: each candidate path is yielded at most once in a run, whatever the input paths
C21_YieldedOnce ==
    \A i, j \in 1..Len(yielded) :
        i # j /\ ~yielded[i].error /\ ~yielded[j].error => yielded[i].path # yielded[j].path

\* the first position at which the paths p and q differ
Diverge(p, q) ==
    CHOOSE k \in 1..(Min(Len(p), Len(q)) + 1) :
        /\ \A i \in 1..(k - 1) : p[i] = q[i]
        /\ k <= Min(Len(p), Len(q)) => p[k] # q[k]
\* p comes before q in an enumeration of a tree: below the directory they share, a file
\* of the directory comes before everything of its subdirectories, and two files, or
\* two subdirectories, come in the order of their names
Before(p, q) ==
    LET k == Diverge(p, q)
    IN /\ k <= Len(p) /\ k <= Len(q)
       /\ IF Len(p) = k THEN Len(q) > k \/ StrLess(p[k], q[k])
          ELSE Len(q) > k /\ StrLess(p[k], q[k])
\* the input of the run is one directory
OneDirectory == Len(Input) = 1 /\ Input[1] \in DOMAIN tree /\ tree[Input[1]] = "dir"
\* C22: in the enumeration of a directory the files of a directory are yielded before
\* the files of its subdirectories, and sibling files and sibling subdirectories in the
\* order of their names, so the yielded sequence is fixed by the tree
C22_FilesFirstInLexicalOrder ==
    OneDirectory =>
        \A i, j \in 1..Len(yielded) :
            i < j /\ ~yielded[i].error /\ ~yielded[j].error => Before(yielded[i].path, yielded[j].path)
\* two sibling files and files of two sibling subdirectories were yielded
C22_Witness ==
    /\ OneDirectory /\ EnumerationOver
    /\ \E i, j \in 1..Len(yielded) :
          i < j /\ Len(yielded[i].path) = 2 /\ Len(yielded[j].path) = 2
    /\ \E i, j \in 1..Len(yielded) :
          /\ i < j /\ Len(yielded[i].path) = 3 /\ Len(yielded[j].path) = 3
          /\ yielded[i].path[2] # yielded[j].path[2]

\* the enumeration has ended: its input is exhausted, or an exception ended it
EnumerationEnded == walk[1].pc \in {"done", "raised"}
\* C23: a warning of the enumeration (a path not found, not an image, a directory that
\* cannot be listed) excludes that path only: no exception ends the enumeration, and
\* when it has ended every eligible image file among the input paths has been yielded
C23_WarningExcludesOnlyThatPath ==
    /\ walk[1].pc # "raised"
    /\ EnumerationEnded =>
          \A n \in 1..Len(Input) : ImageFile(Input[n]) /\ Eligible(Input[n]) => Input[n] \in YieldedPaths

(***************************************************************************)
(* Properties of sanitize_filename.                                        *)
(***************************************************************************)
Sanitized == call.fn = "sanitize_filename" /\ call.pc \in {"returned", "returned_again"}
\* C24: sanitize_filename is idempotent: applied to its own result under the same policy,
\* it returns that result
C24_Idempotent ==
    call.fn = "sanitize_filename" /\ call.pc = "returned_again" => call.again = call.result

\* C25: the result of sanitize_filename neither starts nor ends with a hyphen and has no
\* two hyphens in a row
C25_HyphensTrimmedAndSingle ==
    Sanitized /\ call.result # <<>> =>
        /\ call.result[1] # "-"
        /\ call.result[Len(call.result)] # "-"
        /\ \A i \in 1..(Len(call.result) - 1) : ~(call.result[i] = "-" /\ call.result[i + 1] = "-")
\* a text that starts with two hyphens, or ends with a hyphen, was given, and something
\* of it is left
C25_Witness ==
    /\ Sanitized /\ call.result # <<>>
    /\ Len(call.text) = MaxTextLen
    /\ \/ call.text[1] = "-" /\ call.text[2] = "-"
       \/ call.text[Len(call.text)] = "-"

\* C26: the result of sanitize_filename neither starts nor ends with whitespace, and
\* holds no whitespace at all when spaces are not allowed
C26_NoOuterWhitespace ==
    Sanitized =>
        /\ call.result # <<>> => ~IsSpace(call.result[1]) /\ ~IsSpace(call.result[Len(call.result)])
        /\ ~call.policy.allow_spaces => \A i \in 1..Len(call.result) : ~IsSpace(call.result[i])

(***************************************************************************)
(* Properties of get_filename_date.                                        *)
(***************************************************************************)
\* a date that exists is written at position j of text, in one of the two forms
DateAt(text, j) ==
    \E k \in 1..Len(DatePatterns) :
        MatchesAt(DatePatterns[k], text, j) /\ ValidDate(Groups(DatePatterns[k], text, j))
\* the date written there
TheDateAt(text, j) ==
    LET k == CHOOSE k \in 1..Len(DatePatterns) : MatchesAt(DatePatterns[k], text, j)
    IN Groups(DatePatterns[k], text, j)
\* the first date that exists in text, or NoDate
FirstDate(text) ==
    IF \E j \in 1..Len(text) : DateAt(text, j)
    THEN TheDateAt(text, CHOOSE j \in 1..Len(text) : DateAt(text, j) /\ \A i \in 1..(j - 1) : ~DateAt(text, i))
    ELSE NoDate
DateReturned == call.fn = "get_filename_date" /\ call.pc = "returned"
\* C27: get_filename_date returns the first date of the stem that is written as YYYY-MM-DD
\* or YYYYMMDD with a year 20YY and exists in the calendar, and none if there is no such
\* date; what is written like a date but does not exist is passed over
C27_FirstValidDate ==
    DateReturned => call.result = FirstDate(Stem(call.image_path))

(***************************************************************************)
(* Properties of the date prefix.                                          *)
(***************************************************************************)
\* text starts with prefix
StartsWithText(text, prefix) == Len(text) >= Len(prefix) /\ SubSeq(text, 1, Len(prefix)) = prefix
\* text starts with \d{4}-\d{2}-\d{2}
StartsWithDate(text) ==
    /\ Len(text) >= 10
    /\ \A i \in {1, 2, 3, 4, 6, 7, 9, 10} : text[i] \in Digits
    /\ \A i \in {5, 8} : text[i] = "-"
\* the date the new name has to start with: that of the original name, else that of the
\* metadata if add_dates is set, else none
DueDate(image_path, add_dates, exif) ==
    IF get_filename_date(image_path) # NoDate THEN get_filename_date(image_path)
    ELSE IF add_dates THEN exif ELSE NoDate
Named == call.fn = "process_image" /\ call.pc = "returned"
\* C28: the new name starts with the date of the original name if it has one, else with
\* the date of the metadata if add_dates is set and there is one, as YYYY-MM-DD, and
\* else with no date
C28_DatePrefix ==
    Named =>
        LET date == DueDate(call.image_path, call.rename_options.add_dates, call.exif)
        IN IF date # NoDate THEN StartsWithText(call.result, StrfDate(date))
           ELSE ~StartsWithDate(call.result)

(***************************************************************************)
(* Properties of the phases of a candidate.                                *)
(***************************************************************************)
\* the phases of process_image in their order
Phases ==
    <<{"none"}, {"load"}, {"before_request"}, {"generate"}, {"on_success", "on_rate_limit"},
      {"returned", "raised"}, {"exited"}>>
Phase(pc) == CHOOSE k \in 1..Len(Phases) : pc \in Phases[k]
\* with this step the thread of c calls op of the rate limiter
Calls(c, op) == co[c].op # op /\ co'[c].op = op
\* with this step the thread of c calls the generator
Generates(c) == th'[c].requests # th[c].requests
C29_Step ==
    \A c \in CandidateIds :
        \* a thread never goes back to a phase, so no phase happens twice
        /\ th'[c].pc # th[c].pc => Phase(th'[c].pc) > Phase(th[c].pc)
        \* before_request is called when the image has been loaded, and only then
        /\ Calls(c, "before_request") <=> th[c].pc = "load" /\ th'[c].pc = "before_request"
        \* the generator is called once, after before_request has returned
        /\ th[c].pc # "generate" /\ th'[c].pc = "generate" =>
               th[c].pc = "before_request" /\ co[c].op = "before_request" /\ co[c].pc = "returned"
        /\ Generates(c) => th[c].pc = "generate" /\ th[c].requests = 0 /\ th'[c].requests = 1
        \* on_success is called when the generator has returned, and only then; on_rate_limit
        \* when it has failed with "Resource has been exhausted", and only then
        /\ Calls(c, "on_success") <=> Generates(c) /\ th'[c].pc = "on_success"
        /\ Calls(c, "on_rate_limit") <=> Generates(c) /\ th'[c].pc = "on_rate_limit"
        /\ th'[c].error = "Resource has been exhausted" => th[c].pc \in {"on_rate_limit", "raised", "exited"}
        \* a failure of the loading ends the thread: no call of the limiter or the generator
        /\ th[c].pc = "load" /\ th'[c].pc = "raised" =>
               th'[c].error = "load" /\ th'[c].requests = 0 /\ co'[c] = IdleCo
        /\ th[c].pc \in {"returned", "raised", "exited"} =>
               th'[c].requests = th[c].requests /\ th'[c].error = th[c].error /\ co'[c] = co[c]
\* C29: for each candidate, before_request is called only after the loading succeeded, the
\* generator only after before_request returned, on_success exactly once after the
\* generator returned and on_rate_limit exactly once after it failed with the rate-limit
\* message; a failure of the loading is the end for the candidate
C29_PhasesInOrder == [][C29_Step]_vars
\* one candidate was renamed, one was rate-limited and one could not be loaded
C29_Witness ==
    \E c, d, e \in CandidateIds :
        /\ th[c].pc \in {"returned", "exited"} /\ th[c].error = None /\ th[c].requests = 1
        /\ th[d].error = "Resource has been exhausted" /\ th[d].requests = 1
        /\ th[e].error = "load" /\ th[e].requests = 0

(***************************************************************************)
(* Properties of the retries for a shorter name.                           *)
(***************************************************************************)
\* the requests made for model m with the p-th prompt
AskedOf(m, p) == {i \in 1..Len(call.asked) : call.asked[i].model = m /\ call.asked[i].p = p}
\* C30: the generator is called at most MAX_RETRIES times for each pair of a model and a
\* prompt, and in every attempt after the first the prompt it is given starts with
\* "Keep it very brief. "
C30_TerserPromptOnRetry ==
    call.fn = "main" =>
        /\ \A m \in 1..call.models, p \in 1..Len(call.prompt) : Cardinality(AskedOf(m, p)) <= MAX_RETRIES
        /\ \A i \in 1..Len(call.asked) :
              call.asked[i].attempt > 0 => StartsWithText(call.asked[i].prompt, Brief)

(***************************************************************************)
(* Properties of the order of enumeration and processing.                  *)
(***************************************************************************)
\* candidate c has left the queue: its task has passed the semaphore
Started(c) == task[c].pc \in {"to_thread", "done"}
\* C31: processing starts before the enumeration is over: when the enumerator has
\* produced its last item, some candidate of the run has already started, also when
\* there are fewer candidates than slots
C31_StartsBeforeEnumerationEnds ==
    files = <<>> /\ main.active_tasks # {} => \E c \in CandidateIds : Started(c)

\* the items the enumerator has produced so far, of the run over FewFiles
Given == SubSeq(FewFiles, 1, Len(FewFiles) - Len(files))
GivenPaths == {Given[i] : i \in DOMAIN Given} \ {0}
\* a task exists for exactly the paths produced, a task is created once, its result is
\* counted when it leaves the batch, and every notice is passed on
C32_Tally ==
    /\ {c \in CandidateIds : task[c].pc # "none"} = GivenPaths
    /\ main.empty_directory_errors = Cardinality({i \in DOMAIN Given : Given[i] = 0})
    /\ main.successful + main.failed =
           Cardinality(IF main.pc = "finished" THEN GivenPaths ELSE GivenPaths \ main.active_tasks)
    /\ main.pc = "finished" => files = <<>>
C32_CreatedOnce ==
    \A c \in CandidateIds : task[c].pc # "none" => task'[c].pc \notin {"none", "created"} \/ task'[c] = task[c]
\* C32: one task and one result for every path the enumerator produces, every
\* empty-directory notice passed on once, so that successful + failed in the summary is
\* the number of candidates enumerated
C32_OneTaskOneResult == [](C32_Tally) /\ [][C32_CreatedOnce]_vars
C32_Witness ==
    /\ main.pc = "finished" /\ main.successful + main.failed = Cardinality(GivenPaths)
    /\ main.failed > 0 /\ main.successful > 0 /\ main.empty_directory_errors > 0
    /\ options.jobs = 1

(***************************************************************************)
(* Properties of the final name.                                           *)
(***************************************************************************)
\* the stem of the new name: what precedes the extension of the original
FinalStem == SubSeq(call.result, 1, Len(call.result) - Len(Suffix(call.image_path)))
EndsWithText(text, suffix) ==
    Len(text) >= Len(suffix) /\ SubSeq(text, Len(text) - Len(suffix) + 1, Len(text)) = suffix
Doubled(text, ch) == \E i \in 1..(Len(text) - 1) : text[i] = ch /\ text[i + 1] = ch
\* C33: the final stem has no hyphen at either end, no two hyphens and no two spaces in
\* a row, and the final name ends with the extension of the original
C33_CleanStem ==
    Named =>
        /\ EndsWithText(call.result, Suffix(call.image_path))
        /\ FinalStem # <<>> => Head(FinalStem) # "-" /\ FinalStem[Len(FinalStem)] # "-"
        /\ ~Doubled(FinalStem, "-")
        /\ ~Doubled(FinalStem, " ")
\* the part of C33 that holds: the hyphens and the extension
C33_HyphensAndExtension ==
    Named =>
        /\ EndsWithText(call.result, Suffix(call.image_path))
        /\ FinalStem # <<>> => Head(FinalStem) # "-" /\ FinalStem[Len(FinalStem)] # "-"
        /\ ~Doubled(FinalStem, "-")

(***************************************************************************)
(* Properties of the empty-directory notices.                              *)
(***************************************************************************)
\* p lies under the directory dir
Under(p, dir) == Len(p) > Len(dir) /\ SubSeq(p, 1, Len(dir)) = dir
InputDirs == {Input[k] : k \in {n \in 1..Len(Input) : Input[n] \in DOMAIN tree /\ tree[Input[n]] = "dir"}}
\* the directories an enumeration that ends normally has gone through
EnumeratedDirs == {p \in DOMAIN tree : tree[p] = "dir" /\ (p \in InputDirs \/ \E dir \in InputDirs : Under(p, dir))}
Noticed(dir) == \E i \in 1..Len(yielded) : yielded[i].error /\ yielded[i].path = dir
NothingUnder(dir) == \A p \in YieldedPaths : ~Under(p, dir)
\* C34: a directory gets an empty-directory notice if and only if no eligible file was
\* found under it, itself and its descendants: no path is ever yielded under a directory
\* that has its notice, and when the enumeration is over every directory it went through
\* with nothing yielded under it has one
C34_NoticeIffNothingFound ==
    /\ \A dir \in DOMAIN tree : Noticed(dir) => NothingUnder(dir)
    /\ EnumerationOver => \A dir \in EnumeratedDirs : NothingUnder(dir) => Noticed(dir)
\* the same, of the directories given as input paths only
C34_InputDirectories ==
    /\ \A dir \in DOMAIN tree : Noticed(dir) => NothingUnder(dir) /\ dir \in InputDirs
    /\ EnumerationOver => \A dir \in InputDirs : NothingUnder(dir) => Noticed(dir)

(***************************************************************************)
(* Properties of the backoff window under concurrent requests.             *)
(***************************************************************************)
\* the end of the backoff window that on_rate_limit opened: t + b
WindowEnd == limiter.last_error_time + limiter.current_backoff
\* a before_request that starts now waits (lines 26-29)
WindowOpen == limiter.last_error_time > 0 /\ clock < WindowEnd
\* C37: once on_rate_limit has recorded an error at t with backoff b, the window lasts
\* until t + b whatever is reported meanwhile: no step, and no on_success of a request
\* issued before the error, closes or shortens it, so that every before_request that
\* starts in it returns no earlier than t + b
C37_WindowKept == [][WindowOpen => (WindowOpen' /\ WindowEnd' >= WindowEnd) \/ clock' >= WindowEnd]_vars

(***************************************************************************)
(* Properties of the count of successes.                                   *)
(***************************************************************************)
\* the candidates whose file no longer exists under its original name
RenamedAway == {c \in CandidateIds : Candidates[c] \notin DOMAIN fs}
\* C38: in a real run every result counted as successful is one of a candidate whose
\* thread asked the generator and renamed the file, which exists under the reported name
\* and no longer under its own: a candidate that did no work is never counted as a success
C38_SuccessMeansRenamed ==
    ~options.dry_run =>
        /\ \A c \in ReportedSuccess :
               /\ th[c].pc \in {"returned", "exited"} /\ th[c].requests > 0
               /\ task[c].result \in DOMAIN fs
               /\ c \in RenamedAway
        /\ main.successful <= Cardinality(ReportedSuccess \cap RenamedAway)
\* a real run that has counted a success and a failure, the failed file still in place
C38_Witness ==
    /\ ~options.dry_run /\ main.pc = "finished"
    /\ main.successful > 0 /\ main.failed > 0
    /\ \E c \in ReportedFailure : c \notin RenamedAway

(***************************************************************************)
(* Properties of a failure of the generator other than a rate limit.       *)
(***************************************************************************)
\* the request of candidate c has failed without the rate-limit signature
FailedRequest(c) == th[c].error = "generate"
\* the step of the failure leaves the limiter as it is
C39_Step ==
    \A c \in CandidateIds :
        ~FailedRequest(c) /\ FailedRequest(c)' =>
            /\ limiter' = limiter /\ error_streak' = error_streak
            /\ co'[c] = co[c]
\* no call of the limiter follows it, and the candidate is reported and counted as failed
C39_Failed ==
    \A c \in CandidateIds :
        FailedRequest(c) =>
            /\ co[c] = IdleCo
            /\ th[c].pc \in {"raised", "exited"}
            /\ task[c].pc = "done" => task[c].outcome = "raised"
            /\ main.pc = "finished" => c \in ReportedFailure /\ main.failed >= 1
\* C39: a failure of the generator that is no rate limit (its timeout included) leaves
\* the limiter's backoff and error time unchanged, is followed by neither on_success nor
\* on_rate_limit for that attempt, and the candidate ends as a failure
C39_FailureLeavesLimiter == [](C39_Failed) /\ [][C39_Step]_vars
\* a run is over in which a request failed so, the limiter being as it was made
C39_Witness ==
    /\ main.pc = "finished"
    /\ \E c \in ReportedFailure : FailedRequest(c)
    /\ limiter.current_backoff = INITIAL_BACKOFF /\ limiter.last_error_time = 0

(***************************************************************************)
(* Properties of the scanner thread and its queue.                         *)
(***************************************************************************)
\* the files the scanner has put on the queue so far, and those still on it
Put == [i \in 1..(call.next - 1) |-> i]
IsFile(q) == q # Sentinel
Waiting == SelectSeq(call.queue, IsFile)
\* the files the body of the loop does not skip (line 210)
Wanted(i) == call.process_all \/ is_camera_filename(call.items[i])
LoopExited == call.loop \in {"join", "joined"}
Admitted(c) == task[c].pc = "to_thread"
\* the task of candidate c is over, by a result or by an exception
Terminal(c) == task[c].pc = "done" /\ task[c].outcome \in {"returned", "raised"}
\* process_batch is exhausted and rename_image_files has its counts
BatchOver == main.pc = "finished"
\* C35: under fairness every admitted candidate reaches a terminal state and the batch
\* terminates: no interleaving of the threads waiting for the limiter, of the event loop
\* and of the semaphore ends in a state where the run is not over and nothing can go on
C35_Terminates == <>BatchOver /\ \A c \in CandidateIds : Admitted(c) ~> Terminal(c)
\* the run is over after a rate limit, a wait for the end of its backoff window and a
\* success
C35_Witness ==
    /\ BatchOver /\ main.successful > 0 /\ main.failed > 0
    /\ limiter.last_request_time >= StartTime + BACKOFF_FACTOR * INITIAL_BACKOFF
    /\ \A c \in GivenPaths : Terminal(c)

=============================================================================
